---- MODULE Spec2Model ----
(***************************************************************************)
(* Backup lifecycle coordinator (useBackupManagement + ManageSection) and  *)
(* the export / import orchestrator (useConfigManager) of antigravity-     *)
(* agent, as a state machine.                                              *)
(*                                                                         *)
(* Every `await invoke(...)` of the source is three steps here: the        *)
(* handler issues the call and suspends (st = "pending"), the host command *)
(* surface executes it (StoreOk / StoreFail set st), and the              *)
(* continuation of the handler runs up to its next await.  Handlers run    *)
(* on one JavaScript thread, so each continuation is one atomic action.    *)
(***************************************************************************)
EXTENDS Naturals, Sequences, FiniteSets

\* ------------------------------------------------------------- bounds
NumNames == 2          \* backup names / account e-mails are 1..NumNames
MaxRefresh == 2        \* handleRefresh invocations that may overlap
MaxOps == 3            \* operations started in one behaviour
MaxFlows == 2          \* export / import flows that may overlap
MaxSwitch == 2         \* handleSwitchAccount invocations that may overlap
MaxChecks == 2         \* checkUserData invocations that may overlap
MaxOpsAll == 2         \* operations started in a behaviour of SpecAll
NumPaths == 2          \* paths the file picker can return
MaxTime == 7           \* seconds a behaviour lasts
MaxShows == 3          \* showStatus calls in one behaviour
NumPasswords == 2      \* passwords a user may type
NumRandoms == 2        \* values the random source may return for a salt or a nonce
NumPayloads == 2       \* values of one opaque payload byte of a bundle
MaxBundleLen == 2      \* payload bytes in a bundle

Names == 1..NumNames
Null == 0

VARIABLES
  store,            \* host side: the set of backup names on disk
  backups,          \* useBackupManagement: useState<string[]>([])
  isRefreshing,     \* useBackupManagement: useState(false)
  isInitialLoading, \* useBackupManagement: useState(true)
  isDeleting,       \* ManageSection
  isClearing,       \* ManageSection
  deleteDialogOpen, \* ManageSection
  isClearDialogOpen,\* ManageSection
  backupToDelete,   \* ManageSection: string | null
  switchingAccount, \* ManageSection: string | null
  task,             \* the suspended async handlers, one record per slot
  started,          \* operations started so far (bounded by MaxOps)
  snap0,            \* the snapshot when the latest operation started (observer)
  ev,               \* what the last step completed or issued (observer)
  flow,             \* useConfigManager: the export / import flows in progress
  isImporting,      \* useConfigManager: configLoadingState.isImporting
  isExporting,      \* useConfigManager: configLoadingState.isExporting
  passwordDialog,   \* usePasswordDialog: the dialog and the flow whose onSubmit it holds
  refreshTimers,    \* pending setTimeout(() => onRefresh(), 500) of importConfig
  cev,              \* what flow the last step ended, and how (observer)
  proc,             \* useAntigravityProcess: backupAndRestartAntigravity in progress
  isProcessLoading, \* useAntigravityProcess: useState(false)
  check,            \* useConfigManager: the checkUserData calls in progress
  isCheckingData,   \* useConfigManager: useState<boolean>(false)
  hasUserData,      \* useConfigManager: useState<boolean>(false)
  shell,            \* which root component runs: useAppInitialization or App.tsx
  pathHost,         \* host side: what the path detector finds
  isDetecting,      \* useAppInitialization / AppContent: useState(true)
  antigravityFound, \* useAppInitialization: useState<boolean | null>(null)
  isPathDialogOpen, \* useAppInitialization / AppContent: useState(false)
  detect,           \* detectAndInit / initializeApp in progress
  dialog,           \* AntigravityPathDialog: its useState values
  browse,           \* handleBrowseDataPath / handleBrowseExecPath in progress
  save,             \* handleSave in progress
  validated,        \* the paths validatePath / validateExecutable returned true for (observer)
  bev,              \* what the last startup / path-dialog step did (observer)
  now,              \* the time, in seconds
  notice,           \* useStatusNotification: status, timeoutRef and its pending timers
  appNotice,        \* AppContent / MainApp: status and the pending timers of showStatus
  sev,              \* what the last status step did (observer)
  codec             \* the codec's side: the bundle to export, the container file, decode results

vars == <<store, backups, isRefreshing, isInitialLoading, isDeleting, isClearing,
          deleteDialogOpen, isClearDialogOpen, backupToDelete, switchingAccount,
          task, started, snap0, ev,
          flow, isImporting, isExporting, passwordDialog, refreshTimers, cev,
          proc, isProcessLoading, check, isCheckingData, hasUserData,
          shell, pathHost, isDetecting, antigravityFound, isPathDialogOpen,
          detect, dialog, browse, save, validated, bev,
          now, notice, appNotice, sev, codec>>

coordVars == <<store, backups, isRefreshing, isInitialLoading, isDeleting, isClearing,
               deleteDialogOpen, isClearDialogOpen, backupToDelete, switchingAccount,
               task, snap0, ev>>
bootVars == <<shell, pathHost, isDetecting, antigravityFound, isPathDialogOpen,
              detect, dialog, browse, save, validated, bev>>
statusVars == <<now, notice, appNotice, sev>>
extVars == <<bootVars, statusVars, codec>>
sideVars == <<proc, isProcessLoading, check, isCheckingData, hasUserData, extVars>>
cfgVars == <<flow, isImporting, isExporting, passwordDialog, refreshTimers, cev, sideVars>>

\* ------------------------------------------------------------- tasks
\* One slot per async handler that can be suspended at an await.
RefreshSlots == 1..MaxRefresh      \* handleRefresh invocations
DelTask == MaxRefresh + 1          \* confirmDeleteBackup (button disabled while isDeleting)
ClrTask == MaxRefresh + 2          \* confirmClearAllBackups (button disabled while isClearing)
SwSlots == (MaxRefresh + 3)..(MaxRefresh + 2 + MaxSwitch)   \* handleSwitchAccount invocations
InitTask == MaxRefresh + 3 + MaxSwitch   \* the refreshBackupList(true) of useAppInitialization
Tasks == 1..InitTask
CoordTasks == RefreshSlots \cup {DelTask, ClrTask}
NoTask == 0

\* pc: the command the handler awaits ("wait" is the setTimeout of waitForFileWrite).
RefreshPcs == {"list1", "getcur", "write", "wait", "list2"}

\* The idle slot.  nList .. mutOk only count what the running operation did.
IdleTask ==
  [pc |-> "idle", st |-> "none", val |-> <<>>, skip |-> FALSE, arg |-> Null,
   nList |-> 0, nGet |-> 0, nWrite |-> 0, nMut |-> 0, nRefresh |-> 0,
   nErr |-> 0, nInfo |-> 0, nFail |-> 0, noCred |-> FALSE, mutOk |-> FALSE,
   zeroRemoved |-> FALSE]

NoEvent == [fin |-> NoTask, sum |-> IdleTask, wrote |-> FALSE]

\* ------------------------------------------------------ host command surface
\* list_backups returns the names in a fixed display order.
RECURSIVE SeqOf(_)
SeqOf(S) ==
  IF S = {} THEN <<>>
  ELSE LET m == CHOOSE x \in S : \A y \in S : x <= y
       IN <<m>> \o SeqOf(S \ {m})

SetOf(q) == {q[i] : i \in 1..Len(q)}

\* get_current_antigravity_info: null, or a record whose credential fields may be empty.
NoInfo == [present |-> FALSE, apiKey |-> FALSE, blob |-> FALSE, email |-> Null]
Infos ==
  {NoInfo} \cup
  {[present |-> TRUE, apiKey |-> k, blob |-> b, email |-> e] :
     k \in BOOLEAN, b \in BOOLEAN, e \in Names}

\* The effect of a successful command on the store.
StoreAfter(cmd, arg) ==
  CASE cmd = "write"  -> store \cup {arg}
    [] cmd = "delete" -> store \ {arg}
    [] cmd = "clear"  -> {}
    [] OTHER          -> store

\* delete_backup of an absent name is an error ("not found").
CanSucceed(cmd, arg) == cmd = "delete" => arg \in store

\* What a successful command returns: list_backups the names, clear_all_backups the
\* number of entries it removed, the others nothing
\* the model keeps (the record of get_current_antigravity_info does not depend on
\* the store and is drawn when the handler reads it).
Result(cmd) ==
  CASE cmd \in {"list1", "list2"} -> SeqOf(store)
    [] cmd = "clear" -> Cardinality(store)       \* the count removed
    [] OTHER -> <<>>

\* ------------------------------------------------------ handler helpers
\* `await invoke(cmd, arg)`: issue the call and suspend.
Invoke(r, cmd, arg) ==
  [r EXCEPT !.pc = cmd, !.st = "pending", !.val = <<>>, !.arg = arg,
            !.nList = @ + (IF cmd \in {"list1", "list2"} THEN 1 ELSE 0),
            !.nGet = @ + (IF cmd = "getcur" THEN 1 ELSE 0),
            !.nWrite = @ + (IF cmd = "write" THEN 1 ELSE 0),
            !.nMut = @ + (IF cmd \in {"delete", "clear"} THEN 1 ELSE 0)]

\* showStatus(message, isError)
ShowStatus(r, isError) ==
  [r EXCEPT !.nErr = @ + (IF isError THEN 1 ELSE 0),
            !.nInfo = @ + (IF isError THEN 0 ELSE 1)]

\* A rejected invoke reaches a catch block.
Caught(r) == [r EXCEPT !.nFail = @ + 1]

\* ------------------------------------------------------ flows
FlowSlots == 1..MaxFlows
NoFlow == 0

\* pc: "hasData" / "pick" / "export" / "decrypt" name the ConfigManager call the flow
\* awaits; in "prompt" the async function has returned and the flow lives on as the
\* onSubmit closure held by the password dialog.
\* ver is the format version of the bundle a successful decryptConfigData returned;
\* nCodec .. sched only record what the flow did: calls of exportEncryptedConfig /
\* decryptConfigData, showPasswordDialog called, hasExportableData said no, the
\* file was not read as a container, onRefresh scheduled.
IdleFlow ==
  [kind |-> "none", pc |-> "idle", st |-> "none", val |-> FALSE, ver |-> "none",
   nErr |-> 0, nInfo |-> 0, nFail |-> 0, nCodec |-> 0,
   prompted |-> FALSE, noData |-> FALSE, badFile |-> FALSE, sched |-> FALSE]

NoFlowEvent == [fin |-> NoFlow, how |-> "none", sum |-> IdleFlow]

ClosedDialog == [isOpen |-> FALSE, owner |-> NoFlow, requireConfirmation |-> FALSE]

\* backupAndRestartAntigravity when it is not running, and a checkUserData slot.
IdleProc == [pc |-> "idle", st |-> "none", nErr |-> 0, nInfo |-> 0, nFail |-> 0]
CheckSlots == 1..MaxChecks
IdleCheck == [pc |-> "idle", st |-> "none", val |-> FALSE]

\* ------------------------------------------------------ startup and path dialog
\* Paths the file picker can return; '' is NoPath.  The host accepts the paths of
\* ValidDataPaths (a directory holding state.vscdb) and of ValidExecPaths.
Paths == 1..NumPaths
NoPath == 0
ValidDataPaths == {p \in Paths : p % 2 = 1}
ValidExecPaths == {p \in Paths : p % 2 = 1}

Shells == {"hook", "app"}

\* detectAndInit (pc "detectPath", "detectExec", "refresh") or initializeApp (pc
\* "detectBoth", its Promise.all) when it is not running; db / exec keep pathInfo.found
\* and execInfo.found.
IdleDetect == [pc |-> "idle", st |-> "none", db |-> FALSE, exec |-> FALSE]

\* The state of a freshly mounted AntigravityPathDialog.
FreshDialog ==
  [dataPath |-> NoPath, isDataPathValid |-> FALSE, isValidatingData |-> FALSE,
   execPath |-> NoPath, isExecPathValid |-> FALSE, isValidatingExec |-> FALSE,
   isSaving |-> FALSE, errorMessage |-> FALSE]

\* handleBrowseDataPath / handleBrowseExecPath (pc "open", "validate") and handleSave
\* (pc "savePath", "saveExecutable") when not running.  handleSave keeps the values
\* of dataPath, execPath and isExecPathValid of the render it was called in.
BrowseKinds == {"data", "exec"}
IdleBrowse == [pc |-> "idle", st |-> "none", path |-> NoPath, val |-> FALSE]
IdleSave == [pc |-> "idle", st |-> "none", dataPath |-> NoPath, execPath |-> NoPath,
             withExec |-> FALSE]

NoBootEvent == [what |-> "none", path |-> NoPath, ok |-> FALSE]

\* ------------------------------------------------------ status notification
\* The time a message is shown: setTimeout(..., 5000), in seconds.
StatusTimeout == 5

\* A message is named by the number of the showStatus call that showed it, and a
\* timer by the number of the call that scheduled it; '' is NoMessage and a null
\* timeoutRef is NoTimer.
NoMessage == 0
NoTimer == 0

\* useStatusNotification after its first render: atUnmount is the number of showStatus
\* calls made before the cleanup of the mount effect ran.
FirstNotice ==
  [status |-> NoMessage, shownAt |-> 0, timeoutRef |-> NoTimer, timers |-> {},
   shows |-> 0, mounted |-> TRUE, atUnmount |-> 0]

\* The status state of AppContent / MainApp.
FirstAppNotice == [status |-> NoMessage, shownAt |-> 0, timers |-> {}, shows |-> 0]

NoStatusEvent ==
  [src |-> "none", what |-> "none", by |-> NoTimer, msg |-> NoMessage, shownAt |-> 0,
   empty |-> FALSE, mounted |-> TRUE]

\* ------------------------------------------------------ useBackupManagement
\* setBackups patching the snapshot with a response instead of replacing it.
SetBackupsMerging(prev, backupList) == SeqOf(SetOf(prev) \cup SetOf(backupList))

\* fetchBackups: setBackups(backupList), the whole response.
SetBackups(prev, backupList) == backupList

\* Observer: get_current_antigravity_info returned neither an apiKey nor a status blob.
NoCredentials(info) == ~info.apiKey /\ ~info.blob

\* autoBackupCurrentUser testing only that get_current_antigravity_info returned an object.
HasValidUserInfoAnyObject(info) == info.present

\* autoBackupCurrentUser: currentInfo && (currentInfo.apiKey || currentInfo.userStatusProtoBinaryBase64)
HasValidUserInfo(info) == info.present /\ (info.apiKey \/ info.blob)

\* confirmDeleteBackup calling onRefresh() with the default argument.
DeleteSkipAutoBackupDefault == FALSE

\* The argument confirmDeleteBackup / confirmClearAllBackups pass to onRefresh.
DeleteSkipAutoBackup == TRUE
ClearSkipAutoBackup == TRUE

\* The step leaves task t suspended as r.
Continue(t, r) ==
  /\ task' = [task EXCEPT ![t] = r]
  /\ ev' = [fin |-> NoTask, sum |-> IdleTask,
            wrote |-> (r.pc = "write" /\ task[t].pc # "write")]
  /\ UNCHANGED <<isRefreshing, isDeleting, isClearing, switchingAccount>>

\* The handler of task t returns with final record r: its `finally` block runs.
Finish(t, r) ==
  /\ task' = [task EXCEPT ![t] = IdleTask]
  /\ ev' = [fin |-> t, sum |-> r, wrote |-> FALSE]
  /\ isRefreshing' = (IF t \in RefreshSlots THEN FALSE ELSE isRefreshing)
  /\ isDeleting' = (IF t = DelTask THEN FALSE ELSE isDeleting)
  /\ isClearing' = (IF t = ClrTask THEN FALSE ELSE isClearing)
  /\ switchingAccount' = (IF t \in SwSlots THEN Null ELSE switchingAccount)

\* refreshBackupList(skipAutoBackup) up to its first await: fetchBackups' invoke.
RefreshBackupList(r, skipAutoBackup) ==
  Invoke([r EXCEPT !.skip = skipAutoBackup, !.nRefresh = @ + 1], "list1", r.arg)

\* refreshBackupList has ended (normally or in its catch): setIsInitialLoading(false).
RefreshReturns(t, r) ==
  /\ isInitialLoading' = FALSE
  /\ Finish(t, r)

(***************************************************************************)
(* BundleCodec and KeyDerivation (spec.md, sections 4.1 and 4.2).  The     *)
(* ConfigManager that implements them is called by useConfigManager and is *)
(* not among the source files; it is modelled from the specification.      *)
(***************************************************************************)
\* A bundle: a non-empty sequence of opaque payload bytes.
Bundles == UNION {[1..n -> 0..(NumPayloads - 1)] : n \in 1..MaxBundleLen}
NoBundle == <<>>
\* The values of one serialized byte (a length prefix or a payload byte).
ByteMod == MaxBundleLen + NumPayloads + 1
NoFile == [salt |-> 0, nonce |-> 0, ct |-> <<>>, tag |-> <<>>]
NoOutput ==
  [done |-> FALSE, ok |-> FALSE, bundle |-> NoBundle, err |-> "none",
   tried |-> 0, tampered |-> FALSE, password |-> 0]
IdleCodec ==
  [bundle |-> NoBundle, password |-> 0, file |-> NoFile, tampered |-> FALSE,
   out |-> [f \in FlowSlots |-> NoOutput]]

\* derive(password, salt) -> key: a pure function, distinct inputs give distinct keys.
Derive(password, salt) == (password - 1) * NumRandoms + salt

\* The deterministic serialization of a bundle: a length prefix, then the payloads.
Serialize(bundle) == <<Len(bundle)>> \o bundle
Deserialize(bytes) == SubSeq(bytes, 2, 1 + bytes[1])

\* The cipher: a key stream depending on key, nonce and position.
KeyStream(key, nonce, i) == (key * 7 + nonce * 3 + i) % ByteMod
Encrypt(key, nonce, pt) ==
  [i \in 1..Len(pt) |-> (pt[i] + KeyStream(key, nonce, i)) % ByteMod]
\* Decryption applying the key stream in the direction encryption does.
DecryptAddingKeyStream(key, nonce, ct) ==
  [i \in 1..Len(ct) |-> (ct[i] + KeyStream(key, nonce, i)) % ByteMod]
Decrypt(key, nonce, ct) ==
  [i \in 1..Len(ct) |-> (ct[i] + ByteMod - KeyStream(key, nonce, i)) % ByteMod]

\* encode(bundle, password) -> EncryptedContainer, with the salt and nonce it drew.
\* The authentication tag verifies only under the same key, nonce and ciphertext.
Encode(bundle, password, salt, nonce) ==
  LET key == Derive(password, salt)
      ct == Encrypt(key, nonce, Serialize(bundle))
  IN  [salt |-> salt, nonce |-> nonce, ct |-> ct, tag |-> <<key, nonce, ct>>]

\* decode(container, password) -> Result<CredentialBundle, CryptoError>
Decode(container, password) ==
  LET key == Derive(password, container.salt)
  IN  IF <<key, container.nonce, container.ct>> # container.tag
      THEN [ok |-> FALSE, bundle |-> NoBundle, err |-> "AuthenticationFailed"]
      ELSE [ok |-> TRUE,
            bundle |-> Deserialize(Decrypt(key, container.nonce, container.ct)),
            err |-> "none"]


InitState ==
  /\ store \in SUBSET Names
  /\ backups = <<>>
  /\ isRefreshing = FALSE
  /\ isInitialLoading = TRUE
  /\ isDeleting = FALSE
  /\ isClearing = FALSE
  /\ deleteDialogOpen = FALSE
  /\ isClearDialogOpen = FALSE
  /\ backupToDelete = Null
  /\ switchingAccount = Null
  /\ task = [t \in Tasks |-> IdleTask]
  /\ snap0 = <<>>
  /\ ev = NoEvent
  /\ flow = [f \in FlowSlots |-> IdleFlow]
  /\ isImporting = FALSE
  /\ isExporting = FALSE
  /\ passwordDialog = ClosedDialog
  /\ refreshTimers = 0
  /\ cev = NoFlowEvent
  /\ proc = IdleProc
  /\ isProcessLoading = FALSE
  /\ check = [c \in CheckSlots |-> IdleCheck]
  /\ isCheckingData = FALSE
  /\ hasUserData = FALSE
  /\ isDetecting = TRUE
  /\ antigravityFound = "null"
  /\ isPathDialogOpen = FALSE
  /\ detect = IdleDetect
  /\ dialog = FreshDialog
  /\ browse = [k \in BrowseKinds |-> IdleBrowse]
  /\ save = IdleSave
  /\ validated = [k \in BrowseKinds |-> {}]
  /\ bev = NoBootEvent
  /\ now = 0
  /\ notice = FirstNotice
  /\ appNotice = FirstAppNotice
  /\ sev = NoStatusEvent

\* The installation the list's handlers and the toolbar run on: both paths are found.
Installed ==
  /\ shell = "hook"
  /\ pathHost = [dbFound |-> TRUE, execFound |-> TRUE]

Init == InitState /\ Installed /\ started = 0 /\ codec = IdleCodec

\* The host executes the pending command of task t successfully.
StoreOk(t) ==
  /\ task[t].st = "pending"
  /\ CanSucceed(task[t].pc, task[t].arg)
  /\ task' = [task EXCEPT ![t].st = "ok", ![t].val = Result(task[t].pc)]
  /\ store' = StoreAfter(task[t].pc, task[t].arg)
  /\ ev' = NoEvent
  /\ UNCHANGED <<backups, isRefreshing, isInitialLoading, isDeleting, isClearing,
                 deleteDialogOpen, isClearDialogOpen, backupToDelete, switchingAccount,
                 started, snap0>>
  /\ UNCHANGED cfgVars

\* The pending command of task t fails (every command is fallible): the invoke rejects.
StoreFail(t) ==
  /\ task[t].st = "pending"
  /\ task' = [task EXCEPT ![t].st = "err"]
  /\ ev' = NoEvent
  /\ UNCHANGED <<store, backups, isRefreshing, isInitialLoading, isDeleting, isClearing,
                 deleteDialogOpen, isClearDialogOpen, backupToDelete, switchingAccount,
                 started, snap0>>
  /\ UNCHANGED cfgVars

\* handleRefresh up to the first await of refreshBackupList(false).
HandleRefreshCall(t) ==
  /\ t \in RefreshSlots
  /\ task[t].pc = "idle"
  /\ \A u \in RefreshSlots : u < t => task[u].pc # "idle"
  /\ started < MaxOps
  /\ started' = started + 1
  /\ snap0' = backups
  /\ isRefreshing' = TRUE
  /\ task' = [task EXCEPT ![t] = RefreshBackupList(IdleTask, FALSE)]
  /\ ev' = NoEvent
  /\ UNCHANGED <<store, backups, isInitialLoading, isDeleting, isClearing,
                 deleteDialogOpen, isClearDialogOpen, backupToDelete, switchingAccount>>

\* handleRefresh called by the refresh button or by the onRefresh timer of
\* useAntigravityProcess: nothing in it looks at what else is in flight.
HandleRefresh(t) ==
  /\ HandleRefreshCall(t)
  /\ UNCHANGED cfgVars

\* refreshBackupList resumes after the first `await fetchBackups()`.
RefreshAfterFirstFetch(t) ==
  /\ task[t].pc = "list1"
  /\ UNCHANGED <<started, snap0>>
  /\ UNCHANGED cfgVars
  /\ task[t].st \in {"ok", "err"}
  /\ UNCHANGED <<store, deleteDialogOpen, isClearDialogOpen, backupToDelete>>
  /\ IF task[t].st = "ok"
     THEN /\ backups' = SetBackups(backups, task[t].val)
          /\ IF task[t].skip
             THEN RefreshReturns(t, ShowStatus(task[t], FALSE))
             ELSE /\ Continue(t, Invoke(task[t], "getcur", task[t].arg))
                  /\ UNCHANGED isInitialLoading
     ELSE /\ UNCHANGED backups
          /\ RefreshReturns(t, ShowStatus(Caught(task[t]), TRUE))

\* autoBackupCurrentUser resumes after get_current_antigravity_info.
AutoBackupAfterInfo(t) ==
  /\ task[t].pc = "getcur"
  /\ UNCHANGED <<started, snap0>>
  /\ UNCHANGED cfgVars
  /\ task[t].st \in {"ok", "err"}
  /\ UNCHANGED <<store, backups, deleteDialogOpen, isClearDialogOpen, backupToDelete>>
  /\ IF task[t].st = "ok"
     THEN \E currentInfo \in Infos :
            IF HasValidUserInfo(currentInfo)
            THEN /\ Continue(t, Invoke([task[t] EXCEPT !.noCred = NoCredentials(currentInfo)],
                                        "write", currentInfo.email))
                 /\ UNCHANGED isInitialLoading
            ELSE RefreshReturns(t, ShowStatus([task[t] EXCEPT !.noCred = NoCredentials(currentInfo)],
                                              FALSE))
     ELSE RefreshReturns(t, ShowStatus(Caught(task[t]), TRUE))

\* autoBackupCurrentUser whose catch block reports the error and returns true.
AutoBackupAfterWriteReturningTrue(t) ==
  /\ task[t].pc = "write"
  /\ UNCHANGED <<started, snap0>>
  /\ UNCHANGED cfgVars
  /\ task[t].st \in {"ok", "err"}
  /\ UNCHANGED <<store, backups, deleteDialogOpen, isClearDialogOpen, backupToDelete>>
  /\ Continue(t, [(IF task[t].st = "ok" THEN ShowStatus(task[t], FALSE)
                                        ELSE ShowStatus(Caught(task[t]), TRUE))
                   EXCEPT !.pc = "wait", !.st = "none", !.arg = Null])
  /\ UNCHANGED isInitialLoading

\* autoBackupCurrentUser resumes after backup_antigravity_current_account; on
\* success refreshBackupList goes on to `await waitForFileWrite()`.
AutoBackupAfterWrite(t) ==
  /\ task[t].pc = "write"
  /\ UNCHANGED <<started, snap0>>
  /\ UNCHANGED cfgVars
  /\ task[t].st \in {"ok", "err"}
  /\ UNCHANGED <<store, backups, deleteDialogOpen, isClearDialogOpen, backupToDelete>>
  /\ IF task[t].st = "ok"
     THEN /\ Continue(t, [ShowStatus(task[t], FALSE) EXCEPT !.pc = "wait", !.st = "none", !.arg = Null])
          /\ UNCHANGED isInitialLoading
     ELSE RefreshReturns(t, ShowStatus(Caught(task[t]), TRUE))

\* waitForFileWrite: the FILE_WRITE_DELAY_MS timer fires; then `await fetchBackups()`.
WaitForFileWrite(t) ==
  /\ task[t].pc = "wait"
  /\ UNCHANGED <<started, snap0>>
  /\ UNCHANGED cfgVars
  /\ Continue(t, Invoke(task[t], "list2", task[t].arg))
  /\ UNCHANGED <<store, backups, isInitialLoading, deleteDialogOpen, isClearDialogOpen,
                 backupToDelete>>

\* refreshBackupList resumes after the second `await fetchBackups()`.
RefreshAfterSecondFetch(t) ==
  /\ task[t].pc = "list2"
  /\ UNCHANGED <<started, snap0>>
  /\ UNCHANGED cfgVars
  /\ task[t].st \in {"ok", "err"}
  /\ UNCHANGED <<store, deleteDialogOpen, isClearDialogOpen, backupToDelete>>
  /\ IF task[t].st = "ok"
     THEN /\ backups' = SetBackups(backups, task[t].val)
          /\ RefreshReturns(t, ShowStatus(task[t], FALSE))
     ELSE /\ UNCHANGED backups
          /\ RefreshReturns(t, ShowStatus(Caught(task[t]), TRUE))

\* ------------------------------------------------------ ManageSection
\* A Radix dialog is modal: while one is open the list's buttons cannot be clicked.
NoModal == ~deleteDialogOpen /\ ~isClearDialogOpen

\* A row of the list is rendered (and its buttons enabled) for this backup.
RowEnabled(name) ==
  /\ ~isInitialLoading
  /\ name \in SetOf(backups)
  /\ switchingAccount # name

\* A synchronous handler reported a status outside any async operation.
SyncStatus(isError) == [fin |-> NoTask, sum |-> ShowStatus(IdleTask, isError), wrote |-> FALSE]

handleDeleteBackup(name) ==
  /\ NoModal
  /\ UNCHANGED <<started, snap0>>
  /\ UNCHANGED cfgVars
  /\ RowEnabled(name)
  /\ backupToDelete' = name
  /\ deleteDialogOpen' = TRUE
  /\ ev' = NoEvent
  /\ UNCHANGED <<store, backups, isRefreshing, isInitialLoading, isDeleting, isClearing,
                 isClearDialogOpen, switchingAccount, task>>

\* Dialog.Close / Escape: onOpenChange(false) -> setDeleteDialogOpen(false).
CloseDeleteDialog ==
  /\ deleteDialogOpen
  /\ UNCHANGED <<started, snap0>>
  /\ UNCHANGED cfgVars
  /\ deleteDialogOpen' = FALSE
  /\ ev' = NoEvent
  /\ UNCHANGED <<store, backups, isRefreshing, isInitialLoading, isDeleting, isClearing,
                 isClearDialogOpen, backupToDelete, switchingAccount, task>>

\* confirmDeleteBackup up to `await invoke('delete_backup')`.
confirmDeleteBackup ==
  /\ deleteDialogOpen
  /\ ~isDeleting
  /\ started < MaxOps
  /\ UNCHANGED cfgVars
  /\ ev' = NoEvent
  /\ UNCHANGED <<store, backups, isRefreshing, isInitialLoading, isClearing,
                 deleteDialogOpen, isClearDialogOpen, backupToDelete, switchingAccount>>
  /\ IF backupToDelete = Null
     THEN UNCHANGED <<isDeleting, task, started, snap0>>
     ELSE /\ isDeleting' = TRUE
          /\ started' = started + 1
          /\ snap0' = backups
          /\ task' = [task EXCEPT ![DelTask] =
                        Invoke(IdleTask, "delete", backupToDelete)]

\* confirmDeleteBackup treating a rejected delete_backup like a completed one.
DeleteAfterInvokeSwallowing ==
  /\ task[DelTask].pc = "delete"
  /\ UNCHANGED <<started, snap0>>
  /\ UNCHANGED cfgVars
  /\ task[DelTask].st \in {"ok", "err"}
  /\ UNCHANGED <<store, backups, isInitialLoading, isClearDialogOpen>>
  /\ deleteDialogOpen' = FALSE
  /\ backupToDelete' = Null
  /\ Continue(DelTask,
              RefreshBackupList([ShowStatus(task[DelTask], FALSE) EXCEPT
                                   !.mutOk = (task[DelTask].st = "ok")],
                                DeleteSkipAutoBackup))

\* confirmDeleteBackup resumes after delete_backup.
DeleteAfterInvoke ==
  /\ task[DelTask].pc = "delete"
  /\ UNCHANGED <<started, snap0>>
  /\ UNCHANGED cfgVars
  /\ task[DelTask].st \in {"ok", "err"}
  /\ UNCHANGED <<store, backups, isInitialLoading, isClearDialogOpen>>
  /\ IF task[DelTask].st = "ok"
     THEN /\ deleteDialogOpen' = FALSE
          /\ backupToDelete' = Null
          /\ Continue(DelTask,
                      RefreshBackupList([ShowStatus(task[DelTask], FALSE) EXCEPT !.mutOk = TRUE],
                                        DeleteSkipAutoBackup))
     ELSE /\ UNCHANGED <<deleteDialogOpen, backupToDelete>>
          /\ Finish(DelTask, ShowStatus(Caught(task[DelTask]), TRUE))

\* handleClearAllBackups behind a button that is shown for an empty list as well.
handleClearAllBackupsAlwaysShown ==
  /\ NoModal
  /\ UNCHANGED <<started, snap0>>
  /\ UNCHANGED cfgVars
  /\ IF Len(backups) = 0
     THEN /\ ev' = SyncStatus(TRUE)
          /\ UNCHANGED isClearDialogOpen
     ELSE /\ ev' = NoEvent
          /\ isClearDialogOpen' = TRUE
  /\ UNCHANGED <<store, backups, isRefreshing, isInitialLoading, isDeleting, isClearing,
                 deleteDialogOpen, backupToDelete, switchingAccount, task>>

\* handleClearAllBackups, the onClick of a button rendered only when backups.length > 0.
handleClearAllBackups ==
  /\ NoModal
  /\ UNCHANGED <<started, snap0>>
  /\ UNCHANGED cfgVars
  /\ Len(backups) > 0
  /\ IF Len(backups) = 0
     THEN /\ ev' = SyncStatus(TRUE)
          /\ UNCHANGED isClearDialogOpen
     ELSE /\ ev' = NoEvent
          /\ isClearDialogOpen' = TRUE
  /\ UNCHANGED <<store, backups, isRefreshing, isInitialLoading, isDeleting, isClearing,
                 deleteDialogOpen, backupToDelete, switchingAccount, task>>

CloseClearDialog ==
  /\ isClearDialogOpen
  /\ UNCHANGED <<started, snap0>>
  /\ UNCHANGED cfgVars
  /\ isClearDialogOpen' = FALSE
  /\ ev' = NoEvent
  /\ UNCHANGED <<store, backups, isRefreshing, isInitialLoading, isDeleting, isClearing,
                 deleteDialogOpen, backupToDelete, switchingAccount, task>>

\* confirmClearAllBackups up to `await invoke('clear_all_backups')`.
confirmClearAllBackups ==
  /\ isClearDialogOpen
  /\ ~isClearing
  /\ isClearing' = TRUE
  /\ task' = [task EXCEPT ![ClrTask] =
                Invoke(IdleTask, "clear", Null)]
  /\ started < MaxOps
  /\ UNCHANGED cfgVars
  /\ started' = started + 1
  /\ snap0' = backups
  /\ ev' = NoEvent
  /\ UNCHANGED <<store, backups, isRefreshing, isInitialLoading, isDeleting,
                 deleteDialogOpen, isClearDialogOpen, backupToDelete, switchingAccount>>

\* Observer: clear_all_backups succeeded on a store that held no entry.
RemovedNothing(r) == r.st = "ok" /\ r.val = 0

\* confirmClearAllBackups resumes after clear_all_backups.
ClearAfterInvoke ==
  /\ task[ClrTask].pc = "clear"
  /\ UNCHANGED <<started, snap0>>
  /\ UNCHANGED cfgVars
  /\ task[ClrTask].st \in {"ok", "err"}
  /\ UNCHANGED <<store, backups, isInitialLoading, deleteDialogOpen, backupToDelete>>
  /\ LET r == [task[ClrTask] EXCEPT !.zeroRemoved = RemovedNothing(task[ClrTask])]
     IN IF r.st = "ok"
        THEN /\ isClearDialogOpen' = FALSE
             /\ Continue(ClrTask,
                         RefreshBackupList([ShowStatus(r, FALSE) EXCEPT !.mutOk = TRUE],
                                           ClearSkipAutoBackup))
        ELSE /\ UNCHANGED isClearDialogOpen
             /\ Finish(ClrTask, ShowStatus(Caught(r), TRUE))

\* handleSwitchAccount up to `await invoke('switch_to_antigravity_account')`; only
\* the row of the account being switched to is disabled.
handleSwitchAccount(name) ==
  /\ NoModal
  /\ RowEnabled(name)
  /\ \E t \in SwSlots :
       /\ task[t].pc = "idle"
       /\ \A u \in SwSlots : u < t => task[u].pc # "idle"
       /\ task' = [task EXCEPT ![t] = Invoke(IdleTask, "switch", name)]
  /\ switchingAccount' = name
  /\ started < MaxOps
  /\ UNCHANGED cfgVars
  /\ started' = started + 1
  /\ snap0' = backups
  /\ ev' = NoEvent
  /\ UNCHANGED <<store, backups, isRefreshing, isInitialLoading, isDeleting, isClearing,
                 deleteDialogOpen, isClearDialogOpen, backupToDelete>>

\* handleSwitchAccount refreshing the list itself after a successful switch.
SwitchAfterInvokeThenRefresh(t) ==
  /\ t \in SwSlots
  /\ task[t].pc = "switch"
  /\ UNCHANGED <<started, snap0>>
  /\ UNCHANGED cfgVars
  /\ task[t].st \in {"ok", "err"}
  /\ UNCHANGED <<store, backups, isInitialLoading, deleteDialogOpen, isClearDialogOpen,
                 backupToDelete>>
  /\ IF task[t].st = "ok"
     THEN Continue(t, RefreshBackupList(ShowStatus(task[t], FALSE), TRUE))
     ELSE Finish(t, ShowStatus(Caught(task[t]), TRUE))

\* handleSwitchAccount resumes after switch_to_antigravity_account.
SwitchAfterInvoke(t) ==
  /\ t \in SwSlots
  /\ task[t].pc = "switch"
  /\ UNCHANGED <<started, snap0>>
  /\ UNCHANGED cfgVars
  /\ task[t].st \in {"ok", "err"}
  /\ UNCHANGED <<store, backups, isInitialLoading, deleteDialogOpen, isClearDialogOpen,
                 backupToDelete>>
  /\ IF task[t].st = "ok"
     THEN Finish(t, ShowStatus(task[t], FALSE))
     ELSE Finish(t, ShowStatus(Caught(task[t]), TRUE))

\* ------------------------------------------------------ useConfigManager
\* The toolbar's buttons: disabled={disabled || isLoading || isAnyLoading}, with
\* isAnyLoading = isProcessLoading || isImporting || isExporting; the password dialog
\* is modal.
ToolbarEnabled == ~isProcessLoading /\ ~isImporting /\ ~isExporting /\ ~passwordDialog.isOpen

\* The export button has isLoading = isExporting || isCheckingData as well.
ExportEnabled == ToolbarEnabled /\ ~isCheckingData

\* showPasswordDialog(config): the dialog now holds flow f's onSubmit; a closure it
\* held before is dropped.
ShowPasswordDialog(f, requireConfirmation) ==
  [isOpen |-> TRUE, owner |-> f, requireConfirmation |-> requireConfirmation]

\* The flows after flow f went on as r, when the dialog was (re)opened for f.
FlowsAfterPrompt(f, r) ==
  [g \in FlowSlots |->
     IF g = f THEN r
     ELSE IF passwordDialog.isOpen /\ passwordDialog.owner = g THEN IdleFlow
     ELSE flow[g]]

\* Flow f ends: `how` is "returned", "rejected" (the promise of the entry point
\* rejects), "cancelled" or "replaced".
FlowEnds(f, r, how) ==
  /\ flow' = [flow EXCEPT ![f] = IdleFlow]
  /\ cev' = [fin |-> f, how |-> how, sum |-> r]

FlowGoesOn(f, r) ==
  /\ flow' = [flow EXCEPT ![f] = r]
  /\ cev' = NoFlowEvent

\* The format versions a decoded bundle can carry.
BundleVersions == {"supported", "unsupported"}

\* A ConfigManager call of flow f returns (val: hasData / result.success); a
\* successful decryptConfigData returns the decoded bundle, whatever its version.
ManagerReturns(f) ==
  /\ flow[f].st = "pending"
  /\ \E v \in BOOLEAN :
       \E ver \in (IF flow[f].pc = "decrypt" /\ v THEN BundleVersions ELSE {"none"}) :
         flow' = [flow EXCEPT ![f].st = "ok", ![f].val = v, ![f].ver = ver]
  /\ cev' = NoFlowEvent
  /\ UNCHANGED <<isImporting, isExporting, passwordDialog, refreshTimers, started>>
  /\ UNCHANGED coordVars
  /\ UNCHANGED sideVars

\* A ConfigManager call of flow f throws.
ManagerThrows(f) ==
  /\ flow[f].st = "pending"
  /\ flow' = [flow EXCEPT ![f].st = "err"]
  /\ cev' = NoFlowEvent
  /\ UNCHANGED <<isImporting, isExporting, passwordDialog, refreshTimers, started>>
  /\ UNCHANGED coordVars
  /\ UNCHANGED sideVars

\* exportConfig up to `await configManager.hasExportableData()`.
exportConfig(f) ==
  /\ ExportEnabled
  /\ flow[f].pc = "idle"
  /\ \A g \in FlowSlots : g < f => flow[g].pc # "idle"
  /\ started < MaxOps
  /\ started' = started + 1
  /\ FlowGoesOn(f, [IdleFlow EXCEPT !.kind = "export", !.pc = "hasData", !.st = "pending"])
  /\ UNCHANGED <<isImporting, isExporting, passwordDialog, refreshTimers>>
  /\ UNCHANGED coordVars
  /\ UNCHANGED sideVars

\* Observer: hasExportableData answered that there is nothing to export.
NothingToExport(r) == r.st = "ok" /\ ~r.val

\* exportConfig setting its loading flag before it asks for the password.
ExportAfterHasDataFlagFirst(f) ==
  /\ flow[f].pc = "hasData"
  /\ flow[f].st \in {"ok", "err"}
  /\ UNCHANGED <<isImporting, refreshTimers, started>>
  /\ UNCHANGED coordVars
  /\ UNCHANGED sideVars
  /\ LET r == [flow[f] EXCEPT !.noData = NothingToExport(flow[f])]
     IN IF r.st = "err"
        THEN /\ FlowEnds(f, [r EXCEPT !.nFail = @ + 1], "rejected")
             /\ UNCHANGED <<passwordDialog, isExporting>>
        ELSE IF ~r.val
        THEN /\ FlowEnds(f, ShowStatus(r, TRUE), "returned")
             /\ UNCHANGED <<passwordDialog, isExporting>>
        ELSE /\ passwordDialog' = ShowPasswordDialog(f, TRUE)
             /\ isExporting' = TRUE
             /\ flow' = FlowsAfterPrompt(f, [r EXCEPT !.pc = "prompt", !.st = "none",
                                                      !.prompted = TRUE])
             /\ cev' = NoFlowEvent

\* exportConfig without the `if (!hasData)` return.
ExportAfterHasDataNoCheck(f) ==
  /\ flow[f].pc = "hasData"
  /\ flow[f].st \in {"ok", "err"}
  /\ UNCHANGED <<isImporting, isExporting, refreshTimers, started>>
  /\ UNCHANGED coordVars
  /\ UNCHANGED sideVars
  /\ LET r == [flow[f] EXCEPT !.noData = NothingToExport(flow[f])]
     IN IF r.st = "err"
        THEN /\ FlowEnds(f, [r EXCEPT !.nFail = @ + 1], "rejected")
             /\ UNCHANGED passwordDialog
        ELSE /\ passwordDialog' = ShowPasswordDialog(f, TRUE)
             /\ flow' = FlowsAfterPrompt(f, [r EXCEPT !.pc = "prompt", !.st = "none",
                                                      !.prompted = TRUE])
             /\ cev' = NoFlowEvent

\* exportConfig resumes after hasExportableData; nothing catches a rejection there.
ExportAfterHasData(f) ==
  /\ flow[f].pc = "hasData"
  /\ flow[f].st \in {"ok", "err"}
  /\ UNCHANGED <<isImporting, isExporting, refreshTimers, started>>
  /\ UNCHANGED coordVars
  /\ UNCHANGED sideVars
  /\ LET r == [flow[f] EXCEPT !.noData = NothingToExport(flow[f])]
     IN IF r.st = "err"
        THEN /\ FlowEnds(f, [r EXCEPT !.nFail = @ + 1], "rejected")
             /\ UNCHANGED passwordDialog
        ELSE IF ~r.val
        THEN /\ FlowEnds(f, ShowStatus(r, TRUE), "returned")
             /\ UNCHANGED passwordDialog
        ELSE /\ passwordDialog' = ShowPasswordDialog(f, TRUE)
             /\ flow' = FlowsAfterPrompt(f, [r EXCEPT !.pc = "prompt", !.st = "none",
                                                      !.prompted = TRUE])
             /\ cev' = NoFlowEvent

\* importConfig up to `await configManager.importEncryptedConfig()`.
importConfig(f) ==
  /\ ToolbarEnabled
  /\ flow[f].pc = "idle"
  /\ \A g \in FlowSlots : g < f => flow[g].pc # "idle"
  /\ started < MaxOps
  /\ started' = started + 1
  /\ FlowGoesOn(f, [IdleFlow EXCEPT !.kind = "import", !.pc = "pick", !.st = "pending"])
  /\ UNCHANGED <<isImporting, isExporting, passwordDialog, refreshTimers>>
  /\ UNCHANGED coordVars
  /\ UNCHANGED sideVars

\* Observer: importEncryptedConfig threw or returned success = false.
NotAContainer(r) == r.st = "err" \/ ~r.val

\* importConfig testing only that importEncryptedConfig did not throw.
ImportAfterPickNoCheck(f) ==
  /\ flow[f].pc = "pick"
  /\ flow[f].st \in {"ok", "err"}
  /\ UNCHANGED <<isImporting, isExporting, refreshTimers, started>>
  /\ UNCHANGED coordVars
  /\ UNCHANGED sideVars
  /\ LET r == [flow[f] EXCEPT !.badFile = NotAContainer(flow[f])]
     IN IF r.st = "err"
        THEN /\ FlowEnds(f, ShowStatus(Caught(r), TRUE), "returned")
             /\ UNCHANGED passwordDialog
        ELSE /\ passwordDialog' = ShowPasswordDialog(f, FALSE)
             /\ flow' = FlowsAfterPrompt(f, [r EXCEPT !.pc = "prompt", !.st = "none",
                                                      !.prompted = TRUE])
             /\ cev' = NoFlowEvent

\* importConfig resumes after importEncryptedConfig.
ImportAfterPick(f) ==
  /\ flow[f].pc = "pick"
  /\ flow[f].st \in {"ok", "err"}
  /\ UNCHANGED <<isImporting, isExporting, refreshTimers, started>>
  /\ UNCHANGED coordVars
  /\ UNCHANGED sideVars
  /\ LET r == [flow[f] EXCEPT !.badFile = NotAContainer(flow[f])]
     IN IF r.st = "err" \/ ~r.val
        THEN /\ FlowEnds(f, ShowStatus(Caught(r), TRUE), "returned")
             /\ UNCHANGED passwordDialog
        ELSE /\ passwordDialog' = ShowPasswordDialog(f, FALSE)
             /\ flow' = FlowsAfterPrompt(f, [r EXCEPT !.pc = "prompt", !.st = "none",
                                                      !.prompted = TRUE])
             /\ cev' = NoFlowEvent

\* The dialog calls onSubmit(password): closePasswordDialog, the loading flag, the
\* "working" status, then the await of exportEncryptedConfig / decryptConfigData.
SubmitPassword(f) ==
  /\ passwordDialog.isOpen
  /\ passwordDialog.owner = f
  /\ flow[f].pc = "prompt"
  /\ passwordDialog' = ClosedDialog
  /\ isExporting' = (IF flow[f].kind = "export" THEN TRUE ELSE isExporting)
  /\ isImporting' = (IF flow[f].kind = "import" THEN TRUE ELSE isImporting)
  /\ FlowGoesOn(f, [ShowStatus(flow[f], FALSE) EXCEPT
                      !.pc = (IF flow[f].kind = "export" THEN "export" ELSE "decrypt"),
                      !.st = "pending", !.nCodec = @ + 1])
  /\ UNCHANGED <<refreshTimers, started>>
  /\ UNCHANGED coordVars
  /\ UNCHANGED sideVars

\* The user dismisses the dialog: the flow it held is over.
CancelPassword(f) ==
  /\ passwordDialog.isOpen
  /\ passwordDialog.owner = f
  /\ passwordDialog' = ClosedDialog
  /\ FlowEnds(f, flow[f], "cancelled")
  /\ UNCHANGED <<isImporting, isExporting, refreshTimers, started>>
  /\ UNCHANGED coordVars
  /\ UNCHANGED sideVars

\* onSubmit of exportConfig resumes after exportEncryptedConfig.
ExportAfterEncrypt(f) ==
  /\ flow[f].pc = "export"
  /\ flow[f].st \in {"ok", "err"}
  /\ isExporting' = FALSE
  /\ IF flow[f].st = "ok" /\ flow[f].val
     THEN FlowEnds(f, ShowStatus(flow[f], FALSE), "returned")
     ELSE FlowEnds(f, ShowStatus(Caught(flow[f]), TRUE), "returned")
  /\ UNCHANGED <<isImporting, passwordDialog, refreshTimers, started>>
  /\ UNCHANGED coordVars
  /\ UNCHANGED sideVars

\* onSubmit of importConfig resumes after decryptConfigData; on success it schedules
\* onRefresh.
\* importConfig's onSubmit testing only that decryptConfigData returned, not its
\* success flag.
ImportAfterDecryptIgnoringSuccess(f) ==
  /\ flow[f].pc = "decrypt"
  /\ flow[f].st \in {"ok", "err"}
  /\ isImporting' = FALSE
  /\ IF flow[f].st = "ok"
     THEN /\ FlowEnds(f, ShowStatus([flow[f] EXCEPT !.sched = TRUE], FALSE), "returned")
          /\ refreshTimers' = refreshTimers + 1
     ELSE /\ FlowEnds(f, ShowStatus(Caught(flow[f]), TRUE), "returned")
          /\ UNCHANGED refreshTimers
  /\ UNCHANGED <<isExporting, passwordDialog, started>>
  /\ UNCHANGED coordVars
  /\ UNCHANGED sideVars

ImportAfterDecrypt(f) ==
  /\ flow[f].pc = "decrypt"
  /\ flow[f].st \in {"ok", "err"}
  /\ isImporting' = FALSE
  /\ IF flow[f].st = "ok" /\ flow[f].val
     THEN /\ FlowEnds(f, ShowStatus([flow[f] EXCEPT !.sched = TRUE], FALSE), "returned")
          /\ refreshTimers' = refreshTimers + 1
     ELSE /\ FlowEnds(f, ShowStatus(Caught(flow[f]), TRUE), "returned")
          /\ UNCHANGED refreshTimers
  /\ UNCHANGED <<isExporting, passwordDialog, started>>
  /\ UNCHANGED coordVars
  /\ UNCHANGED sideVars

\* The 500 ms timer of importConfig fires: onRefresh(), which MainApp wires to handleRefresh.
OnRefreshTimer(t) ==
  /\ refreshTimers > 0
  /\ refreshTimers' = refreshTimers - 1
  /\ HandleRefreshCall(t)
  /\ cev' = NoFlowEvent
  /\ UNCHANGED <<flow, isImporting, isExporting, passwordDialog>>
  /\ UNCHANGED sideVars

\* ------------------------------------------------------ useAntigravityProcess
\* backupAndRestartAntigravity up to `await AntigravityService.backupAndRestartAntigravity`.
backupAndRestartAntigravity ==
  /\ ToolbarEnabled
  /\ proc.pc = "idle"
  /\ started < MaxOps
  /\ started' = started + 1
  /\ isProcessLoading' = TRUE
  /\ proc' = [ShowStatus(IdleProc, FALSE) EXCEPT !.pc = "restart", !.st = "pending"]
  /\ cev' = NoFlowEvent
  /\ UNCHANGED <<flow, isImporting, isExporting, passwordDialog, refreshTimers,
                 check, isCheckingData, hasUserData>>
  /\ UNCHANGED coordVars
  /\ UNCHANGED extVars

\* The host backs up the signed-in account, if there is one, and restarts.
ProcessReturns ==
  /\ proc.st = "pending"
  /\ proc' = [proc EXCEPT !.st = "ok"]
  /\ \E saved \in SUBSET Names : Cardinality(saved) <= 1 /\ store' = store \cup saved
  /\ cev' = NoFlowEvent
  /\ ev' = NoEvent
  /\ UNCHANGED <<flow, isImporting, isExporting, passwordDialog, refreshTimers,
                 isProcessLoading, check, isCheckingData, hasUserData, started>>
  /\ UNCHANGED <<backups, isRefreshing, isInitialLoading, isDeleting, isClearing,
                 deleteDialogOpen, isClearDialogOpen, backupToDelete, switchingAccount,
                 task, snap0>>
  /\ UNCHANGED extVars

ProcessThrows ==
  /\ proc.st = "pending"
  /\ proc' = [proc EXCEPT !.st = "err"]
  /\ cev' = NoFlowEvent
  /\ UNCHANGED <<flow, isImporting, isExporting, passwordDialog, refreshTimers,
                 isProcessLoading, check, isCheckingData, hasUserData, started>>
  /\ UNCHANGED coordVars
  /\ UNCHANGED extVars

\* backupAndRestartAntigravity with setIsProcessLoading(false) at the end of the try
\* block instead of in `finally`.
AfterBackupAndRestartNoFinally ==
  /\ proc.pc = "restart"
  /\ proc.st \in {"ok", "err"}
  /\ proc' = IdleProc
  /\ isProcessLoading' = (proc.st = "err")
  /\ refreshTimers' = (IF proc.st = "ok" THEN refreshTimers + 1 ELSE refreshTimers)
  /\ cev' = [fin |-> NoFlow, how |-> "processEnded", sum |-> IdleFlow]
  /\ UNCHANGED <<flow, isImporting, isExporting, passwordDialog,
                 check, isCheckingData, hasUserData, started>>
  /\ UNCHANGED coordVars
  /\ UNCHANGED extVars

\* backupAndRestartAntigravity resumes: on success it schedules onRefresh (1 s), on
\* failure it reports the error; `finally` resets isProcessLoading.
AfterBackupAndRestart ==
  /\ proc.pc = "restart"
  /\ proc.st \in {"ok", "err"}
  /\ proc' = IdleProc
  /\ isProcessLoading' = FALSE
  /\ refreshTimers' = (IF proc.st = "ok" THEN refreshTimers + 1 ELSE refreshTimers)
  /\ cev' = [fin |-> NoFlow, how |-> "processEnded", sum |-> IdleFlow]
  /\ UNCHANGED <<flow, isImporting, isExporting, passwordDialog,
                 check, isCheckingData, hasUserData, started>>
  /\ UNCHANGED coordVars
  /\ UNCHANGED extVars

\* ------------------------------------------------------ checkUserData
\* checkUserData (called on mount and 500 ms after isRefreshing turned false) up to
\* `await AntigravityService.getBackupList()`.
checkUserData(c) ==
  /\ check[c].pc = "idle"
  /\ \A d \in CheckSlots : d < c => check[d].pc # "idle"
  /\ started < MaxOps
  /\ started' = started + 1
  /\ isCheckingData' = TRUE
  /\ check' = [check EXCEPT ![c] = [pc |-> "list", st |-> "pending", val |-> FALSE]]
  /\ cev' = NoFlowEvent
  /\ UNCHANGED <<flow, isImporting, isExporting, passwordDialog, refreshTimers,
                 proc, isProcessLoading, hasUserData>>
  /\ UNCHANGED coordVars
  /\ UNCHANGED extVars

\* getBackupList returns: val is backupList.length > 0.
CheckReturns(c) ==
  /\ check[c].st = "pending"
  /\ check' = [check EXCEPT ![c].st = "ok", ![c].val = (store # {})]
  /\ cev' = NoFlowEvent
  /\ UNCHANGED <<flow, isImporting, isExporting, passwordDialog, refreshTimers,
                 proc, isProcessLoading, isCheckingData, hasUserData, started>>
  /\ UNCHANGED coordVars
  /\ UNCHANGED extVars

CheckThrows(c) ==
  /\ check[c].st = "pending"
  /\ check' = [check EXCEPT ![c].st = "err"]
  /\ cev' = NoFlowEvent
  /\ UNCHANGED <<flow, isImporting, isExporting, passwordDialog, refreshTimers,
                 proc, isProcessLoading, isCheckingData, hasUserData, started>>
  /\ UNCHANGED coordVars
  /\ UNCHANGED extVars

\* checkUserData resumes: setHasUserData, and `finally` setIsCheckingData(false).
AfterCheckUserData(c) ==
  /\ check[c].pc = "list"
  /\ check[c].st \in {"ok", "err"}
  /\ hasUserData' = (check[c].st = "ok" /\ check[c].val)
  /\ isCheckingData' = FALSE
  /\ check' = [check EXCEPT ![c] = IdleCheck]
  /\ cev' = [fin |-> NoFlow, how |-> "checkEnded", sum |-> IdleFlow]
  /\ UNCHANGED <<flow, isImporting, isExporting, passwordDialog, refreshTimers,
                 proc, isProcessLoading, started>>
  /\ UNCHANGED coordVars
  /\ UNCHANGED extVars

\* ------------------------------------------------------ useAppInitialization / App
\* What a startup or path-dialog step leaves alone of the main application.
mainVars == <<flow, isImporting, isExporting, passwordDialog, refreshTimers, cev,
              proc, isProcessLoading, check, isCheckingData, hasUserData, started,
              statusVars, codec>>
listVars == <<store, backups, isRefreshing, isInitialLoading, isDeleting, isClearing,
              deleteDialogOpen, isClearDialogOpen, backupToDelete, switchingAccount,
              snap0>>

\* A step of the startup or of the path dialog that calls no refreshBackupList.
NoListCall == UNCHANGED <<task, ev>> /\ UNCHANGED listVars /\ UNCHANGED mainVars

\* refreshBackupList(skipAutoBackup) called from the startup code, up to its first await.
InitialLoad(skipAutoBackup) ==
  /\ task' = [task EXCEPT ![InitTask] = RefreshBackupList(IdleTask, skipAutoBackup)]
  /\ ev' = NoEvent
  /\ UNCHANGED listVars
  /\ UNCHANGED mainVars

\* The mount effect of useAppInitialization: detectAndInit up to
\* `await AntigravityPathService.detectAntigravityPath()`.
detectAndInit ==
  /\ shell = "hook"
  /\ isDetecting
  /\ detect.pc = "idle"
  /\ detect' = [IdleDetect EXCEPT !.pc = "detectPath", !.st = "pending"]
  /\ bev' = NoBootEvent
  /\ NoListCall
  /\ UNCHANGED <<shell, pathHost, isDetecting, antigravityFound, isPathDialogOpen,
                 dialog, browse, save, validated>>

\* initializeApp of App.tsx up to its `await Promise.all([...])`.
InitializeAppCall ==
  detect' = [IdleDetect EXCEPT !.pc = "detectBoth", !.st = "pending"]

\* The mount effect of AppContent.
initializeApp ==
  /\ shell = "app"
  /\ isDetecting
  /\ detect.pc = "idle"
  /\ InitializeAppCall
  /\ bev' = NoBootEvent
  /\ NoListCall
  /\ UNCHANGED <<shell, pathHost, isDetecting, antigravityFound, isPathDialogOpen,
                 dialog, browse, save, validated>>

\* The detector answers the pending call(s) with what the host finds.
DetectorReturns ==
  /\ detect.st = "pending"
  /\ detect' = [detect EXCEPT
        !.st = "ok",
        !.db = (IF detect.pc \in {"detectPath", "detectBoth"} THEN pathHost.dbFound ELSE @),
        !.exec = (IF detect.pc \in {"detectExec", "detectBoth"} THEN pathHost.execFound ELSE @)]
  /\ bev' = NoBootEvent
  /\ NoListCall
  /\ UNCHANGED <<shell, pathHost, isDetecting, antigravityFound, isPathDialogOpen,
                 dialog, browse, save, validated>>

DetectorThrows ==
  /\ detect.st = "pending"
  /\ detect' = [detect EXCEPT !.st = "err"]
  /\ bev' = NoBootEvent
  /\ NoListCall
  /\ UNCHANGED <<shell, pathHost, isDetecting, antigravityFound, isPathDialogOpen,
                 dialog, browse, save, validated>>

\* Observer: the detection that ends in this step found both paths.
BothFound(d) == d.st = "ok" /\ d.db /\ d.exec
DetectionEnded(d) == [what |-> "detectionEnded", path |-> NoPath, ok |-> BothFound(d)]

\* detectAndInit: the else branch and the catch block.
ShowPathDialog ==
  /\ antigravityFound' = "false"
  /\ isPathDialogOpen' = TRUE
  /\ isDetecting' = FALSE
  /\ bev' = DetectionEnded(detect)
  /\ detect' = IdleDetect
  /\ NoListCall

\* detectAndInit resumes after detectAntigravityPath.
DetectAfterPath ==
  /\ detect.pc = "detectPath"
  /\ detect.st \in {"ok", "err"}
  /\ IF detect.st = "ok"
     THEN /\ detect' = [detect EXCEPT !.pc = "detectExec", !.st = "pending"]
          /\ bev' = NoBootEvent
          /\ NoListCall
          /\ UNCHANGED <<isDetecting, antigravityFound, isPathDialogOpen>>
     ELSE ShowPathDialog
  /\ UNCHANGED <<shell, pathHost, dialog, browse, save, validated>>

\* detectAndInit starting the initial load with the default skipAutoBackup.
DetectAfterExecDefaultLoad ==
  /\ detect.pc = "detectExec"
  /\ detect.st \in {"ok", "err"}
  /\ IF detect.st = "ok" /\ detect.db /\ detect.exec
     THEN /\ antigravityFound' = "true"
          /\ InitialLoad(FALSE)
          /\ detect' = [detect EXCEPT !.pc = "refresh", !.st = "none"]
          /\ bev' = NoBootEvent
          /\ UNCHANGED <<isDetecting, isPathDialogOpen>>
     ELSE ShowPathDialog
  /\ UNCHANGED <<shell, pathHost, dialog, browse, save, validated>>

\* detectAndInit resumes after detectExecutable: with both found it starts
\* `await refreshBackupList(true)`.
DetectAfterExec ==
  /\ detect.pc = "detectExec"
  /\ detect.st \in {"ok", "err"}
  /\ IF detect.st = "ok" /\ detect.db /\ detect.exec
     THEN /\ antigravityFound' = "true"
          /\ InitialLoad(TRUE)
          /\ detect' = [detect EXCEPT !.pc = "refresh", !.st = "none"]
          /\ bev' = NoBootEvent
          /\ UNCHANGED <<isDetecting, isPathDialogOpen>>
     ELSE ShowPathDialog
  /\ UNCHANGED <<shell, pathHost, dialog, browse, save, validated>>

\* detectAndInit resumes after refreshBackupList(true), which never rejects.
DetectAfterRefresh ==
  /\ detect.pc = "refresh"
  /\ task[InitTask].pc = "idle"
  /\ isDetecting' = FALSE
  /\ bev' = DetectionEnded([detect EXCEPT !.st = "ok"])
  /\ detect' = IdleDetect
  /\ NoListCall
  /\ UNCHANGED <<shell, pathHost, antigravityFound, isPathDialogOpen,
                 dialog, browse, save, validated>>

\* initializeApp resumes after Promise.all.
InitializeAfterDetect ==
  /\ detect.pc = "detectBoth"
  /\ detect.st \in {"ok", "err"}
  /\ isDetecting' = FALSE
  /\ isPathDialogOpen' = ~(detect.st = "ok" /\ detect.db /\ detect.exec)
  /\ bev' = DetectionEnded(detect)
  /\ detect' = IdleDetect
  /\ NoListCall
  /\ UNCHANGED <<shell, pathHost, antigravityFound, dialog, browse, save, validated>>

\* ------------------------------------------------------ AntigravityPathDialog
\* The native file picker is modal: while it is open nothing else can be clicked.
PickerClosed == \A k \in BrowseKinds : browse[k].pc # "open"

DialogUsable == isPathDialogOpen /\ PickerClosed

IsValidating(k) == IF k = "data" THEN dialog.isValidatingData ELSE dialog.isValidatingExec
ValidPaths(k) == IF k = "data" THEN ValidDataPaths ELSE ValidExecPaths

\* What a step of the dialog leaves alone.
appVars == <<shell, isDetecting, antigravityFound, isPathDialogOpen, detect>>

\* handleBrowseDataPath / handleBrowseExecPath up to `await open(...)`; the button is
\* disabled={isValidatingData || isSaving} (resp. isValidatingExec).
handleBrowse(k) ==
  /\ DialogUsable
  /\ ~IsValidating(k)
  /\ ~dialog.isSaving
  /\ browse' = [browse EXCEPT ![k] = [IdleBrowse EXCEPT !.pc = "open", !.st = "pending"]]
  /\ bev' = NoBootEvent
  /\ NoListCall
  /\ UNCHANGED appVars
  /\ UNCHANGED <<pathHost, dialog, save, validated>>

\* The picker returns the chosen path, or null when it was dismissed.
PickerReturns(k) ==
  /\ browse[k].pc = "open"
  /\ browse[k].st = "pending"
  /\ \E result \in Paths \cup {NoPath} :
       browse' = [browse EXCEPT ![k].st = "ok", ![k].path = result]
  /\ bev' = NoBootEvent
  /\ NoListCall
  /\ UNCHANGED appVars
  /\ UNCHANGED <<pathHost, dialog, save, validated>>

\* validatePath / validateExecutable answers.
ValidatorReturns(k) ==
  /\ browse[k].pc = "validate"
  /\ browse[k].st = "pending"
  /\ browse' = [browse EXCEPT ![k].st = "ok", ![k].val = (browse[k].path \in ValidPaths(k))]
  /\ validated' = [validated EXCEPT ![k] =
                     IF browse[k].path \in ValidPaths(k) THEN @ \cup {browse[k].path} ELSE @]
  /\ bev' = NoBootEvent
  /\ NoListCall
  /\ UNCHANGED appVars
  /\ UNCHANGED <<pathHost, dialog, save>>

\* open(...) or the validator rejects.
BrowseCallThrows(k) ==
  /\ browse[k].st = "pending"
  /\ browse' = [browse EXCEPT ![k].st = "err"]
  /\ bev' = NoBootEvent
  /\ NoListCall
  /\ UNCHANGED appVars
  /\ UNCHANGED <<pathHost, dialog, save, validated>>

\* handleBrowse...Path resumes after open(...): with a path it stores it and starts
\* the validation.
BrowseAfterOpen(k) ==
  /\ browse[k].pc = "open"
  /\ browse[k].st \in {"ok", "err"}
  /\ IF browse[k].st = "ok" /\ browse[k].path # NoPath
     THEN /\ dialog' = (IF k = "data"
                        THEN [dialog EXCEPT !.dataPath = browse[k].path,
                                            !.errorMessage = FALSE,
                                            !.isValidatingData = TRUE]
                        ELSE [dialog EXCEPT !.execPath = browse[k].path,
                                            !.errorMessage = FALSE,
                                            !.isValidatingExec = TRUE])
          /\ browse' = [browse EXCEPT ![k].pc = "validate", ![k].st = "pending"]
     ELSE /\ dialog' = [dialog EXCEPT !.errorMessage = (browse[k].st = "err" \/ @)]
          /\ browse' = [browse EXCEPT ![k] = IdleBrowse]
  /\ bev' = NoBootEvent
  /\ NoListCall
  /\ UNCHANGED appVars
  /\ UNCHANGED <<pathHost, save, validated>>

\* handleBrowse...Path resumes after the validator: setIsValidating...(false) and
\* setIs...PathValid(valid) run only when the call returned; the catch block sets the
\* error message alone.
BrowseAfterValidate(k) ==
  /\ browse[k].pc = "validate"
  /\ browse[k].st \in {"ok", "err"}
  /\ IF browse[k].st = "ok"
     THEN dialog' = (IF k = "data"
                     THEN [dialog EXCEPT !.isValidatingData = FALSE,
                                         !.isDataPathValid = browse[k].val,
                                         !.errorMessage = (~browse[k].val \/ @)]
                     ELSE [dialog EXCEPT !.isValidatingExec = FALSE,
                                         !.isExecPathValid = browse[k].val,
                                         !.errorMessage = (~browse[k].val \/ @)])
     ELSE dialog' = [dialog EXCEPT !.errorMessage = TRUE]
  /\ browse' = [browse EXCEPT ![k] = IdleBrowse]
  /\ bev' = [what |-> "validated", path |-> browse[k].path, ok |-> browse[k].st = "ok"]
  /\ NoListCall
  /\ UNCHANGED appVars
  /\ UNCHANGED <<pathHost, save, validated>>

\* canSave, the condition of the save button.
canSave == dialog.isDataPathValid /\ ~dialog.isSaving

\* handleSave up to `await AntigravityPathService.savePath(dataPath)`.
handleSave ==
  /\ DialogUsable
  /\ canSave
  /\ IF dialog.dataPath = NoPath \/ ~dialog.isDataPathValid
     THEN /\ dialog' = [dialog EXCEPT !.errorMessage = TRUE]
          /\ bev' = NoBootEvent
          /\ UNCHANGED save
     ELSE /\ dialog' = [dialog EXCEPT !.isSaving = TRUE]
          /\ save' = [pc |-> "savePath", st |-> "pending",
                      dataPath |-> dialog.dataPath, execPath |-> dialog.execPath,
                      withExec |-> (dialog.execPath # NoPath /\ dialog.isExecPathValid)]
          /\ bev' = [what |-> "savePath", path |-> dialog.dataPath, ok |-> FALSE]
  /\ NoListCall
  /\ UNCHANGED appVars
  /\ UNCHANGED <<pathHost, browse, validated>>

\* savePath / saveExecutable succeeds: the detector finds a saved path that is a
\* valid one.
SaveReturns ==
  /\ save.st = "pending"
  /\ save' = [save EXCEPT !.st = "ok"]
  /\ pathHost' = (IF save.pc = "savePath"
                  THEN [pathHost EXCEPT !.dbFound = (save.dataPath \in ValidDataPaths)]
                  ELSE [pathHost EXCEPT !.execFound = (save.execPath \in ValidExecPaths)])
  /\ bev' = NoBootEvent
  /\ NoListCall
  /\ UNCHANGED appVars
  /\ UNCHANGED <<dialog, browse, validated>>

SaveThrows ==
  /\ save.st = "pending"
  /\ save' = [save EXCEPT !.st = "err"]
  /\ bev' = NoBootEvent
  /\ NoListCall
  /\ UNCHANGED appVars
  /\ UNCHANGED <<pathHost, dialog, browse, validated>>

\* The dialog is unmounted: its state is gone and what its handlers still await can
\* no longer change anything.
DialogUnmounts ==
  /\ dialog' = FreshDialog
  /\ browse' = [k \in BrowseKinds |-> IdleBrowse]
  /\ save' = IdleSave

\* onPathSelected: handlePathSelected of useAppInitialization (it enters the main
\* application and loads the list) or of App.tsx (it runs initializeApp again).
handlePathSelected ==
  /\ isPathDialogOpen' = FALSE
  /\ DialogUnmounts
  /\ bev' = [what |-> "pathSelected", path |-> save.dataPath, ok |-> save.st = "ok"]
  /\ IF shell = "hook"
     THEN /\ antigravityFound' = "true"
          /\ InitialLoad(TRUE)
          /\ UNCHANGED <<detect, isDetecting>>
     ELSE /\ InitializeAppCall
          /\ NoListCall
          /\ UNCHANGED <<antigravityFound, isDetecting>>

\* The catch block of handleSave.
SaveFailed ==
  /\ dialog' = [dialog EXCEPT !.isSaving = FALSE, !.errorMessage = TRUE]
  /\ save' = IdleSave
  /\ bev' = [what |-> "saveFailed", path |-> save.dataPath, ok |-> FALSE]
  /\ NoListCall
  /\ UNCHANGED appVars
  /\ UNCHANGED browse

\* handleSave resumes after savePath: saveExecutable if an executable was chosen and
\* valid, else setIsSaving(false) and onPathSelected().
SaveAfterSavePath ==
  /\ save.pc = "savePath"
  /\ save.st \in {"ok", "err"}
  /\ IF save.st = "err"
     THEN SaveFailed
     ELSE IF save.withExec
          THEN /\ save' = [save EXCEPT !.pc = "saveExecutable", !.st = "pending"]
               /\ bev' = [what |-> "saveExecutable", path |-> save.execPath, ok |-> FALSE]
               /\ NoListCall
               /\ UNCHANGED appVars
               /\ UNCHANGED <<dialog, browse>>
          ELSE handlePathSelected
  /\ UNCHANGED <<shell, pathHost, validated>>

\* handleSave resumes after saveExecutable.
SaveAfterSaveExecutable ==
  /\ save.pc = "saveExecutable"
  /\ save.st \in {"ok", "err"}
  /\ IF save.st = "err" THEN SaveFailed ELSE handlePathSelected
  /\ UNCHANGED <<shell, pathHost, validated>>

\* ------------------------------------------------------ useStatusNotification
\* What a status step leaves alone.
otherVars == <<coordVars, started, flow, isImporting, isExporting, passwordDialog,
               refreshTimers, cev, proc, isProcessLoading, check, isCheckingData,
               hasUserData, bootVars, codec>>

\* clearTimeout(id)
ClearTimeout(timers, id) == {tm \in timers : tm.id # id}

\* setTimeout(callback, StatusTimeout) of the showStatus call number id
SetTimeout(timers, id) == timers \cup {[id |-> id, due |-> now + StatusTimeout]}

\* showStatus of useStatusNotification leaving the previous timer pending.
showStatusKeepingTimer(empty) ==
  /\ notice.shows < MaxShows
  /\ LET id == notice.shows + 1
     IN /\ notice' = [notice EXCEPT
              !.shows = id,
              !.status = (IF ~notice.mounted THEN @ ELSE IF empty THEN NoMessage ELSE id),
              !.shownAt = (IF notice.mounted THEN now ELSE @),
              !.timers = (IF empty THEN @ ELSE SetTimeout(@, id)),
              !.timeoutRef = (IF empty THEN @ ELSE id)]
        /\ sev' = [src |-> "hook", what |-> "show", by |-> id, msg |-> notice.status,
                   shownAt |-> notice.shownAt, empty |-> empty, mounted |-> notice.mounted]
  /\ UNCHANGED <<now, appNotice>>
  /\ UNCHANGED otherVars

\* showStatus of useStatusNotification: it clears the timer timeoutRef holds, sets the
\* status and, for a non-empty message, schedules the clearing.  After the unmount
\* setStatus changes nothing, the ref still works.
showStatus(empty) ==
  /\ notice.shows < MaxShows
  /\ LET id == notice.shows + 1
         cleared == IF notice.timeoutRef # NoTimer
                    THEN ClearTimeout(notice.timers, notice.timeoutRef)
                    ELSE notice.timers
     IN /\ notice' = [notice EXCEPT
              !.shows = id,
              !.status = (IF ~notice.mounted THEN @ ELSE IF empty THEN NoMessage ELSE id),
              !.shownAt = (IF notice.mounted THEN now ELSE @),
              !.timers = (IF empty THEN cleared ELSE SetTimeout(cleared, id)),
              !.timeoutRef = (IF empty THEN NoTimer ELSE id)]
        /\ sev' = [src |-> "hook", what |-> "show", by |-> id, msg |-> notice.status,
                   shownAt |-> notice.shownAt, empty |-> empty, mounted |-> notice.mounted]
  /\ UNCHANGED <<now, appNotice>>
  /\ UNCHANGED otherVars

\* The timer callback of useStatusNotification runs.
StatusTimerFires(tm) ==
  /\ tm \in notice.timers
  /\ now >= tm.due
  /\ notice' = [notice EXCEPT
        !.status = (IF notice.mounted THEN NoMessage ELSE @),
        !.timeoutRef = NoTimer,
        !.timers = @ \ {tm}]
  /\ sev' = [src |-> "hook", what |-> "timer", by |-> tm.id, msg |-> notice.status,
             shownAt |-> notice.shownAt, empty |-> FALSE, mounted |-> notice.mounted]
  /\ UNCHANGED <<now, appNotice>>
  /\ UNCHANGED otherVars

\* The cleanup of the mount effect: the component is unmounted.
StatusUnmount ==
  /\ notice.mounted
  /\ notice' = [notice EXCEPT
        !.mounted = FALSE,
        !.atUnmount = notice.shows,
        !.timers = (IF notice.timeoutRef # NoTimer
                    THEN ClearTimeout(@, notice.timeoutRef) ELSE @),
        !.timeoutRef = NoTimer]
  /\ sev' = [NoStatusEvent EXCEPT !.src = "hook", !.what = "unmount"]
  /\ UNCHANGED <<now, appNotice>>
  /\ UNCHANGED otherVars

\* showStatus of AppContent (and of MainApp): setStatus and a new timer, every time.
AppShowStatus(empty) ==
  /\ appNotice.shows < MaxShows
  /\ LET id == appNotice.shows + 1
     IN /\ appNotice' = [appNotice EXCEPT
              !.shows = id,
              !.status = (IF empty THEN NoMessage ELSE id),
              !.shownAt = now,
              !.timers = SetTimeout(@, id)]
        /\ sev' = [src |-> "app", what |-> "show", by |-> id, msg |-> appNotice.status,
                   shownAt |-> appNotice.shownAt, empty |-> empty, mounted |-> TRUE]
  /\ UNCHANGED <<now, notice>>
  /\ UNCHANGED otherVars

\* A timer callback of the app-level showStatus runs.
AppStatusTimerFires(tm) ==
  /\ tm \in appNotice.timers
  /\ now >= tm.due
  /\ appNotice' = [appNotice EXCEPT !.status = NoMessage, !.timers = @ \ {tm}]
  /\ sev' = [src |-> "app", what |-> "timer", by |-> tm.id, msg |-> appNotice.status,
             shownAt |-> appNotice.shownAt, empty |-> FALSE, mounted |-> TRUE]
  /\ UNCHANGED <<now, notice>>
  /\ UNCHANGED otherVars

\* A second passes.
Tick ==
  /\ now < MaxTime
  /\ now' = now + 1
  /\ sev' = NoStatusEvent
  /\ UNCHANGED <<notice, appNotice>>
  /\ UNCHANGED otherVars

\* ------------------------------------------------------ specification
\* The steps that start an operation.
Starts ==
  \/ \E t \in RefreshSlots : HandleRefresh(t)
  \/ confirmDeleteBackup
  \/ confirmClearAllBackups
  \/ \E name \in Names : handleSwitchAccount(name)

\* The host's steps that complete a command successfully, and the handlers' steps.
Steps ==
  \/ \E t \in Tasks : StoreOk(t)
  \/ \E t \in Tasks : RefreshAfterFirstFetch(t)
  \/ \E t \in Tasks : AutoBackupAfterInfo(t)
  \/ \E t \in Tasks : AutoBackupAfterWrite(t)
  \/ \E t \in Tasks : WaitForFileWrite(t)
  \/ \E t \in Tasks : RefreshAfterSecondFetch(t)
  \/ \E name \in Names : handleDeleteBackup(name)
  \/ CloseDeleteDialog
  \/ DeleteAfterInvoke
  \/ handleClearAllBackups
  \/ CloseClearDialog
  \/ ClearAfterInvoke
  \/ \E t \in Tasks : SwitchAfterInvoke(t)

Fails == \E t \in Tasks : StoreFail(t)

AllIdle == \A t \in Tasks : task[t].pc = "idle"

Next == Starts \/ Steps \/ Fails

\* Every interleaving of the handlers.
Spec == Init /\ [][Next]_vars

\* The same handlers when every operation is started with nothing else in flight.
NextSolo == (AllIdle /\ Starts) \/ Steps \/ Fails
SpecSolo == Init /\ [][NextSolo]_vars

\* Every interleaving in which no command fails.
NextNoFail == Starts \/ Steps
SpecNoFail == Init /\ [][NextNoFail]_vars

\* The export / import flows, and the refreshes their timers start.
NextConfig ==
  \/ \E f \in FlowSlots : exportConfig(f)
  \/ \E f \in FlowSlots : importConfig(f)
  \/ \E f \in FlowSlots : ManagerReturns(f)
  \/ \E f \in FlowSlots : ManagerThrows(f)
  \/ \E f \in FlowSlots : ExportAfterHasData(f)
  \/ \E f \in FlowSlots : ImportAfterPick(f)
  \/ \E f \in FlowSlots : SubmitPassword(f)
  \/ \E f \in FlowSlots : CancelPassword(f)
  \/ \E f \in FlowSlots : ExportAfterEncrypt(f)
  \/ \E f \in FlowSlots : ImportAfterDecrypt(f)
  \/ \E t \in RefreshSlots : OnRefreshTimer(t)
  \/ backupAndRestartAntigravity
  \/ ProcessReturns
  \/ ProcessThrows
  \/ AfterBackupAndRestart
  \/ \E c \in CheckSlots : checkUserData(c)
  \/ \E c \in CheckSlots : CheckReturns(c)
  \/ \E c \in CheckSlots : CheckThrows(c)
  \/ \E c \in CheckSlots : AfterCheckUserData(c)
  \/ \E t \in Tasks : StoreOk(t)
  \/ \E t \in Tasks : StoreFail(t)
  \/ \E t \in Tasks : RefreshAfterFirstFetch(t)
  \/ \E t \in Tasks : AutoBackupAfterInfo(t)
  \/ \E t \in Tasks : AutoBackupAfterWrite(t)
  \/ \E t \in Tasks : WaitForFileWrite(t)
  \/ \E t \in Tasks : RefreshAfterSecondFetch(t)
SpecConfig == Init /\ [][NextConfig]_vars

\* Everything together: the list's handlers, the toolbar's flows and the timers.
\* A behaviour of SpecAll starts MaxOpsAll operations (of the MaxOps the guards allow).
InitAll == InitState /\ Installed /\ started = MaxOps - MaxOpsAll /\ codec = IdleCodec
NextAll == Next \/ NextConfig
SpecAll == InitAll /\ [][NextAll]_vars

\* The startup of the application and the path dialog, on any installation.
InitBoot ==
  /\ InitState
  /\ started = 0
  /\ shell \in Shells
  /\ pathHost \in [dbFound : BOOLEAN, execFound : BOOLEAN]
  /\ codec = IdleCodec
NextBoot ==
  \/ detectAndInit
  \/ initializeApp
  \/ DetectorReturns
  \/ DetectorThrows
  \/ DetectAfterPath
  \/ DetectAfterExec
  \/ DetectAfterRefresh
  \/ InitializeAfterDetect
  \/ \E k \in BrowseKinds : handleBrowse(k)
  \/ \E k \in BrowseKinds : PickerReturns(k)
  \/ \E k \in BrowseKinds : ValidatorReturns(k)
  \/ \E k \in BrowseKinds : BrowseCallThrows(k)
  \/ \E k \in BrowseKinds : BrowseAfterOpen(k)
  \/ \E k \in BrowseKinds : BrowseAfterValidate(k)
  \/ handleSave
  \/ SaveReturns
  \/ SaveThrows
  \/ SaveAfterSavePath
  \/ SaveAfterSaveExecutable
  \/ StoreOk(InitTask)
  \/ StoreFail(InitTask)
  \/ RefreshAfterFirstFetch(InitTask)
SpecBoot == InitBoot /\ [][NextBoot]_vars

\* The host settles every call and the event loop runs every continuation; the user
\* need not click anything.
BootFair ==
  /\ WF_vars(detectAndInit)
  /\ WF_vars(initializeApp)
  /\ WF_vars(DetectorReturns \/ DetectorThrows)
  /\ WF_vars(DetectAfterPath)
  /\ WF_vars(DetectAfterExec)
  /\ WF_vars(DetectAfterRefresh)
  /\ WF_vars(InitializeAfterDetect)
  /\ WF_vars(StoreOk(InitTask) \/ StoreFail(InitTask))
  /\ WF_vars(RefreshAfterFirstFetch(InitTask))
SpecBootFair == SpecBoot /\ BootFair

\* The status display of useStatusNotification, with the time.
TimerIds == 1..MaxShows
TimerDues == 0..(MaxTime + StatusTimeout)
NextStatus ==
  \/ \E empty \in BOOLEAN : showStatus(empty)
  \/ \E id \in TimerIds, due \in TimerDues : StatusTimerFires([id |-> id, due |-> due])
  \/ StatusUnmount
  \/ Tick
SpecStatus == Init /\ [][NextStatus]_vars

\* The status display of AppContent / MainApp, with the time.
NextAppStatus ==
  \/ \E empty \in BOOLEAN : AppShowStatus(empty)
  \/ \E id \in TimerIds, due \in TimerDues : AppStatusTimerFires([id |-> id, due |-> due])
  \/ Tick
SpecAppStatus == Init /\ [][NextAppStatus]_vars

(***************************************************************************)
(* The export and import flows with the codec behind the ConfigManager:    *)
(* exportEncryptedConfig(password) encodes the bundle into the file, and   *)
(* decryptConfigData(encryptedData, password) decodes the file.            *)
(***************************************************************************)
InitCodec ==
  /\ InitState
  /\ Installed
  /\ started = 0
  /\ store = {}
  /\ codec \in {[IdleCodec EXCEPT !.bundle = b] : b \in Bundles}

\* hasExportableData or importEncryptedConfig (the file picker) returns.
ManagerAnswers(f) ==
  /\ flow[f].pc \in {"hasData", "pick"}
  /\ ManagerReturns(f)

\* exportEncryptedConfig(password) returns: the file holds encode(bundle, password),
\* made with a salt and a nonce from the random source.
ExportEncryptedConfig(f) ==
  /\ flow[f].pc = "export"
  /\ flow[f].st = "pending"
  /\ \E password \in 1..NumPasswords, salt \in 1..NumRandoms, nonce \in 1..NumRandoms :
       codec' = [codec EXCEPT !.password = password,
                              !.file = Encode(codec.bundle, password, salt, nonce),
                              !.tampered = FALSE]
  /\ flow' = [flow EXCEPT ![f].st = "ok", ![f].val = TRUE]
  /\ cev' = NoFlowEvent
  /\ UNCHANGED <<isImporting, isExporting, passwordDialog, refreshTimers, started>>
  /\ UNCHANGED coordVars
  /\ UNCHANGED <<proc, isProcessLoading, check, isCheckingData, hasUserData>>
  /\ UNCHANGED <<bootVars, statusVars>>

\* One byte of the file's ciphertext region is altered.
TamperFile(i) ==
  /\ codec.file # NoFile
  /\ ~codec.tampered
  /\ i \in 1..Len(codec.file.ct)
  /\ codec' = [codec EXCEPT !.file.ct[i] = (@ + 1) % ByteMod, !.tampered = TRUE]
  /\ cev' = NoFlowEvent
  /\ UNCHANGED <<flow, isImporting, isExporting, passwordDialog, refreshTimers, started>>
  /\ UNCHANGED coordVars
  /\ UNCHANGED <<proc, isProcessLoading, check, isCheckingData, hasUserData>>
  /\ UNCHANGED <<bootVars, statusVars>>

\* decryptConfigData(encryptedData, password) returns what decode gave: success with
\* the bundle, or a failure with its message.
DecryptConfigData(f) ==
  /\ flow[f].pc = "decrypt"
  /\ flow[f].st = "pending"
  /\ codec.file # NoFile
  /\ \E password \in 1..NumPasswords :
       LET r == Decode(codec.file, password)
       IN  /\ codec' = [codec EXCEPT !.out[f] =
                          [done |-> TRUE, ok |-> r.ok, bundle |-> r.bundle, err |-> r.err,
                           tried |-> password, tampered |-> codec.tampered,
                           password |-> codec.password]]
           /\ flow' = [flow EXCEPT ![f].st = "ok", ![f].val = r.ok,
                                   ![f].ver = IF r.ok THEN "supported" ELSE "none"]
  /\ cev' = NoFlowEvent
  /\ UNCHANGED <<isImporting, isExporting, passwordDialog, refreshTimers, started>>
  /\ UNCHANGED coordVars
  /\ UNCHANGED <<proc, isProcessLoading, check, isCheckingData, hasUserData>>
  /\ UNCHANGED <<bootVars, statusVars>>

NextCodec ==
  \/ \E f \in FlowSlots : exportConfig(f)
  \/ \E f \in FlowSlots : importConfig(f)
  \/ \E f \in FlowSlots : ManagerAnswers(f)
  \/ \E f \in FlowSlots : ExportAfterHasData(f)
  \/ \E f \in FlowSlots : ImportAfterPick(f)
  \/ \E f \in FlowSlots : SubmitPassword(f)
  \/ \E f \in FlowSlots : ExportEncryptedConfig(f)
  \/ \E i \in 1..(MaxBundleLen + 1) : TamperFile(i)
  \/ \E f \in FlowSlots : DecryptConfigData(f)
  \/ \E f \in FlowSlots : ExportAfterEncrypt(f)
  \/ \E f \in FlowSlots : ImportAfterDecrypt(f)
SpecCodec == InitCodec /\ [][NextCodec]_vars

\* ------------------------------------------------------ claims
Finished(t) == ev.fin = t
FinishedIn(S) == ev.fin \in S

\* C1: at most one list-fetch-plus-optional-auto-backup sequence (a refreshBackupList
\* call, whoever made it) is outstanding at any time.
C1_SingleFlightRefresh ==
  Cardinality({t \in Tasks : task[t].pc \in RefreshPcs}) <= 1

\* C2: refresh, delete and clearAll are mutually exclusive: never two of them in flight.
C2_MutualExclusion ==
  Cardinality({t \in CoordTasks : task[t].pc # "idle"}) <= 1

\* C3: when an operation in which a store call failed finishes, the snapshot is the
\* value it had when the operation started.
C3_SnapshotUnchangedOnFailure ==
  (FinishedIn(CoordTasks) /\ ev.sum.nFail > 0) => backups = snap0

\* C4: when no store call fails, once nothing is in flight after a refresh the
\* snapshot equals the store's current list of names.
C4_QuiescentConsistency ==
  (AllIdle /\ ~isInitialLoading) => backups = SeqOf(store)

\* C5: the snapshot starts empty and every change of it installs the complete value
\* of one successful list_backups response.
C5_WholesaleReplacement ==
  /\ backups = <<>>
  /\ [][backups' # backups =>
          \E t \in Tasks : /\ task[t].pc \in {"list1", "list2"}
                           /\ task[t].st = "ok"
                           /\ backups' = task[t].val]_vars

\* C5 witness: a delete and its follow-up refresh completed and left a non-empty snapshot.
C5_Witness ==
  Finished(DelTask) /\ ev.sum.mutOk /\ ev.sum.nFail = 0 /\ backups # <<>>

\* C6: inside a refresh the calls are issued in the order list, get-current, write,
\* list, and the second list is issued on the write's acknowledgment: no handler
\* ever sits in a fixed delay between the two.
C6_OrderedAckBasedRefresh ==
  \A t \in Tasks :
    /\ task[t].pc = "getcur" => (task[t].nList = 1 /\ task[t].nWrite = 0)
    /\ task[t].pc = "write" => (task[t].nGet = 1 /\ task[t].nList = 1)
    /\ task[t].pc = "list2" => task[t].nWrite = 1
    /\ task[t].pc # "wait"

\* C7 (as stated): every finished delete / clearAll made one mutating call and then
\* one refresh with skipAutoBackup = true.
C7_AlwaysRefreshed ==
  FinishedIn({DelTask, ClrTask}) =>
    (ev.sum.nMut = 1 /\ ev.sum.nRefresh = 1 /\ ev.sum.skip)

\* C7 (amended): a delete / clearAll makes exactly one mutating call; if that call
\* succeeds it is followed by exactly one refresh, with skipAutoBackup = true; if it
\* fails no refresh and no list read is made.
C7_RefreshedOnSuccess ==
  /\ \A t \in {DelTask, ClrTask} : task[t].pc # "idle" => task[t].nMut = 1
  /\ FinishedIn({DelTask, ClrTask}) =>
       /\ ev.sum.nMut = 1
       /\ IF ev.sum.mutOk
          THEN ev.sum.nRefresh = 1 /\ ev.sum.skip /\ ev.sum.nList = 1
          ELSE ev.sum.nRefresh = 0 /\ ev.sum.nList = 0 /\ ev.sum.nFail = 1

\* C7 witness: a delete whose delete_backup succeeded has finished after its refresh.
C7_Witness == Finished(DelTask) /\ ev.sum.mutOk /\ ev.sum.nRefresh = 1

\* C8: the refresh after a delete / clearAll calls neither get-current nor write; no
\* write-backup is issued while a delete / clearAll is in flight, and when a fully
\* successful delete finishes the deleted entry is not in the store.
C8_NoAutoBackupAfterDestructive ==
  /\ FinishedIn({DelTask, ClrTask}) => (ev.sum.nGet = 0 /\ ev.sum.nWrite = 0)
  /\ ev.wrote => (task[DelTask].pc = "idle" /\ task[ClrTask].pc = "idle")
  /\ (Finished(DelTask) /\ ev.sum.nFail = 0) => ev.sum.arg \notin store

\* C9: a refresh whose get-current succeeded without credentials issued no write and
\* no second list read and reported exactly one status, not an error.
C9_NoAccountIsNotAnError ==
  (FinishedIn(RefreshSlots) /\ ev.sum.nGet = 1 /\ ev.sum.noCred) =>
    /\ ev.sum.nWrite = 0
    /\ ev.sum.nList = 1
    /\ ev.sum.nInfo = 1
    /\ ev.sum.nErr = 0
    /\ ev.sum.nFail = 0

\* C9 witness: such a refresh has finished.
C9_Witness == FinishedIn(RefreshSlots) /\ ev.sum.nGet = 1 /\ ev.sum.noCred

\* C10: an operation in which a store or codec call failed has reported exactly one
\* status with isError = true when it ends.
C10_OneErrorStatusPerFailure ==
  /\ (ev.fin # NoTask /\ ev.sum.nFail > 0) => ev.sum.nErr = 1
  /\ (cev.fin # NoFlow /\ cev.sum.nFail > 0) => cev.sum.nErr = 1

\* C11: the promise of no entry point rejects: no flow (and no handler) ends by an
\* exception leaving it.
C11_NoUnhandledFault == cev.how # "rejected"

\* C12: when an operation finishes, on success or on failure, the loading flag it set
\* is false again (switchingAccount: null), and no flag stays set once the operations
\* that set it have all finished.
C12_FlagsReset ==
  /\ FinishedIn(RefreshSlots) => ~isRefreshing
  /\ Finished(DelTask) => ~isDeleting
  /\ Finished(ClrTask) => ~isClearing
  /\ FinishedIn(SwSlots) => switchingAccount = Null
  /\ (cev.fin # NoFlow /\ cev.sum.pc = "decrypt") => ~isImporting
  /\ (cev.fin # NoFlow /\ cev.sum.pc = "export") => ~isExporting
  /\ cev.how = "processEnded" => ~isProcessLoading
  /\ cev.how = "checkEnded" => ~isCheckingData
  /\ (\A t \in RefreshSlots : task[t].pc = "idle") => ~isRefreshing
  /\ task[DelTask].pc = "idle" => ~isDeleting
  /\ task[ClrTask].pc = "idle" => ~isClearing
  /\ (\A t \in SwSlots : task[t].pc = "idle") => switchingAccount = Null
  /\ (\A f \in FlowSlots : flow[f].pc # "decrypt") => ~isImporting
  /\ (\A f \in FlowSlots : flow[f].pc # "export") => ~isExporting
  /\ proc.pc = "idle" => ~isProcessLoading
  /\ (\A c \in CheckSlots : check[c].pc = "idle") => ~isCheckingData

\* C12 witness: backupAndRestartAntigravity has just ended on its failure path (it
\* scheduled no refresh) while nothing else is in flight.
C12_Witness ==
  /\ cev.how = "processEnded"
  /\ refreshTimers = 0
  /\ AllIdle
  /\ \A f \in FlowSlots : flow[f].pc = "idle"
  /\ \A c \in CheckSlots : check[c].pc = "idle"

\* C13: a flow waiting for the password has called neither exportEncryptedConfig nor
\* decryptConfigData and has not set its loading flag; dismissing the prompt ends the
\* flow there, changes neither loading flag and schedules no refresh.
C13_CleanCancellation ==
  /\ [](\A f \in FlowSlots :
          flow[f].pc = "prompt" =>
            /\ flow[f].nCodec = 0
            /\ (flow[f].kind = "export" /\ isExporting) => \E g \in FlowSlots : flow[g].pc = "export"
            /\ (flow[f].kind = "import" /\ isImporting) => \E g \in FlowSlots : flow[g].pc = "decrypt")
  /\ [](cev.how = "cancelled" => (cev.sum.pc = "prompt" /\ cev.sum.nCodec = 0 /\ ~cev.sum.sched))
  /\ [][cev'.how = "cancelled" =>
          /\ isExporting' = isExporting
          /\ isImporting' = isImporting
          /\ refreshTimers' = refreshTimers
          /\ \A f \in FlowSlots : flow'[f].pc \in {flow[f].pc, "idle"}]_vars

\* C13 witness: the prompt of an export has been dismissed.
C13_Witness == cev.how = "cancelled" /\ cev.sum.kind = "export"

\* C14: an export whose data check said "nothing to export" ends right there with one
\* status message, without the password prompt and without the encrypt-and-write call.
C14_ExportFailsFast ==
  /\ \A f \in FlowSlots : ~flow[f].noData
  /\ (cev.fin # NoFlow /\ cev.sum.noData) =>
       /\ cev.how = "returned"
       /\ cev.sum.nErr + cev.sum.nInfo = 1
       /\ ~cev.sum.prompted
       /\ cev.sum.nCodec = 0

\* C14 witness: an export has ended on "nothing to export".
C14_Witness == cev.fin # NoFlow /\ cev.sum.kind = "export" /\ cev.sum.noData

\* C15: an import whose file could not be read as a container ends right there with
\* one error status, without the password prompt and without the decrypt call.
C15_ImportRejectsBadFile ==
  /\ \A f \in FlowSlots : ~flow[f].badFile
  /\ (cev.fin # NoFlow /\ cev.sum.badFile) =>
       /\ cev.how = "returned"
       /\ cev.sum.nErr = 1
       /\ ~cev.sum.prompted
       /\ cev.sum.nCodec = 0

\* C15 witness: an import has ended on a file that is not a container.
C15_Witness == cev.fin # NoFlow /\ cev.sum.kind = "import" /\ cev.sum.badFile /\ cev.sum.st = "ok"

\* C16: an import whose decoded bundle has an unsupported version ends with an error
\* status, without a success status and without scheduling a refresh.
C16_UnsupportedVersionRejected ==
  (cev.fin # NoFlow /\ cev.sum.ver = "unsupported") =>
    /\ cev.sum.nErr = 1
    /\ cev.sum.nInfo <= 1
    /\ ~cev.sum.sched

\* C17: at no time are two export / import flows in progress.
C17_OneFlowAtATime ==
  Cardinality({f \in FlowSlots : flow[f].pc # "idle"}) <= 1

\* C18: clear-all on an empty list is not an error: the handler behind the button
\* never reports an error status, and a clear_all_backups that removed nothing is
\* reported with a non-error status (the only error a finished clear-all with zero
\* removed can have reported is its follow-up list read failing).
C18_ClearAllOnEmptyIsNoError ==
  /\ ev.fin = NoTask => ev.sum.nErr = 0
  /\ (Finished(ClrTask) /\ ev.sum.zeroRemoved) =>
       /\ ev.sum.mutOk
       /\ ev.sum.nErr = ev.sum.nFail
       /\ ev.sum.nInfo + ev.sum.nFail = 2

\* C18 witness: a clear-all that removed nothing has finished without any failure.
C18_Witness == Finished(ClrTask) /\ ev.sum.zeroRemoved /\ ev.sum.nFail = 0

\* C19: a delete_backup for a name that is not in the store fails, and a delete whose
\* call failed ends with one error status and no success status.
C19_DeleteAbsentReportsError ==
  /\ [][(/\ task[DelTask].pc = "delete"
         /\ task[DelTask].st = "pending"
         /\ task[DelTask].arg \notin store
         /\ task'[DelTask].st # "pending") => task'[DelTask].st = "err"]_vars
  /\ [][(/\ task[DelTask].pc = "delete"
         /\ task[DelTask].st = "err"
         /\ task'[DelTask] # task[DelTask]) =>
          (Finished(DelTask)' /\ ev'.sum.nErr = 1 /\ ev'.sum.nInfo = 0)]_vars

\* C19 witness: with nothing else in flight, a delete of a name that the list still
\* shows but the store no longer holds has ended with an error status.
C19_Witness ==
  /\ Finished(DelTask)
  /\ ~ev.sum.mutOk
  /\ ev.sum.nErr = 1
  /\ ev.sum.nInfo = 0
  /\ ev.sum.arg \notin store
  /\ ev.sum.arg \in SetOf(backups)
  /\ AllIdle

\* C20: handleSwitchAccount only ever awaits switch_to_antigravity_account; none of
\* its steps changes the snapshot; when it ends it has issued no list, get-current,
\* write, delete or clear call and switchingAccount is null.
C20_SwitchLeavesListAlone ==
  /\ [](\A t \in SwSlots : task[t].pc \in {"idle", "switch"})
  /\ [][(\E t \in SwSlots : task'[t] # task[t]) => backups' = backups]_vars
  /\ [](FinishedIn(SwSlots) =>
          /\ switchingAccount = Null
          /\ ev.sum.nList = 0 /\ ev.sum.nWrite = 0 /\ ev.sum.nMut = 0 /\ ev.sum.nGet = 0)

\* C20 witness: a switch has failed and ended.
C20_Witness == FinishedIn(SwSlots) /\ ev.sum.nFail = 1 /\ backups # <<>>

\* C24: the step that resumes a refresh whose get-current or write call failed ends
\* the refresh: it leaves the snapshot as it is, clears isInitialLoading, and the
\* refresh has then read the list once and reported one error and no other status.
C24_FailedAutoBackupEndsRefresh ==
  [][\A t \in Tasks :
       (/\ task[t].pc \in {"getcur", "write"}
        /\ task[t].st = "err"
        /\ task'[t] # task[t]) =>
         /\ Finished(t)'
         /\ backups' = backups
         /\ ~isInitialLoading'
         /\ ev'.sum.nList = 1
         /\ ev'.sum.nErr = 1
         /\ ev'.sum.nInfo = 0]_vars

\* C24 witness: a refresh has ended on a failed write-backup call, with the list its
\* first read published on display.
C24_Witness ==
  /\ FinishedIn(RefreshSlots)
  /\ ev.sum.pc = "write"
  /\ ev.sum.st = "err"
  /\ ev.sum.nErr = 1
  /\ backups # <<>>
  /\ ~isInitialLoading

\* C27: while a handleRefresh call is in flight, isRefreshing is true.
C27_RefreshingCoversEveryRefresh ==
  (\E t \in RefreshSlots : task[t].pc # "idle") => isRefreshing

\* C23: the main application is on screen (detection over, path dialog closed) only
\* when the detector finds both the database path and the executable.
C23_GateToMainApplication ==
  (~isDetecting /\ ~isPathDialogOpen) => (pathHost.dbFound /\ pathHost.execFound)

\* C28: savePath is called only with a path validatePath has returned true for, and
\* saveExecutable only with a path validateExecutable has returned true for.
C28_OnlyValidatedPathSaved ==
  /\ bev.what = "savePath" => bev.path \in validated["data"]
  /\ bev.what = "saveExecutable" => bev.path \in validated["exec"]

\* C29: once a browse handler has ended, however its validation call ended, its
\* validating flag is false; once handleSave has ended isSaving is false; and
\* onPathSelected is called only after a save call that succeeded.
C29_ValidationAlwaysFinishes ==
  /\ \A k \in BrowseKinds : browse[k].pc = "idle" => ~IsValidating(k)
  /\ save.pc = "idle" => ~dialog.isSaving
  /\ bev.what = "pathSelected" => bev.ok

\* C30: the startup detection ends (isDetecting becomes false); when it ends the path
\* dialog is open exactly if it did not find both paths or threw, and the dialog is
\* opened by no other step; the list load the startup code starts only ever reads the
\* list: it awaits no get-current and no write call.
C30_StartupTerminatesWithoutBackup ==
  /\ <>(~isDetecting)
  /\ [](bev.what = "detectionEnded" => (~isDetecting /\ (isPathDialogOpen <=> ~bev.ok)))
  /\ [][(~isPathDialogOpen /\ isPathDialogOpen') =>
          (bev'.what = "detectionEnded" /\ ~bev'.ok)]_vars
  /\ [](task[InitTask].pc \in {"idle", "list1"})
  /\ [](Finished(InitTask) =>
          (ev.sum.skip /\ ev.sum.nGet = 0 /\ ev.sum.nWrite = 0 /\ ev.sum.nList = 1))

\* C30 witness: useAppInitialization found both paths, its list read failed, and the
\* detection has ended with the dialog closed.
C30_Witness ==
  /\ shell = "hook"
  /\ bev.what = "detectionEnded"
  /\ bev.ok
  /\ Finished(InitTask)
  /\ ev.sum.nFail = 1
  /\ ~isDetecting
  /\ ~isPathDialogOpen

\* C25 as stated: at most one timer of useStatusNotification is pending; a displayed
\* message is cleared only by its own timer, after the timeout, or replaced by a
\* showStatus call; showStatus with an empty message leaves no timer pending; and
\* no timer fires after the unmount.
C25_OneClearTimer ==
  /\ [](Cardinality(notice.timers) <= 1)
  /\ [][(notice.status # NoMessage /\ notice'.status # notice.status) =>
            \/ sev'.what = "show"
            \/ /\ sev'.what = "timer"
               /\ sev'.by = notice.status
               /\ now >= notice.shownAt + StatusTimeout]_vars
  /\ []((sev.src = "hook" /\ sev.what = "show" /\ sev.empty) => notice.timers = {})
  /\ []((sev.src = "hook" /\ sev.what = "timer") => sev.mounted)

\* C25 amended: as C25, but of the timers only the one pending at the unmount is known
\* never to fire: a timer that fires after the unmount was scheduled by a showStatus
\* call made after it.
C25_OneClearTimerPendingCancelled ==
  /\ [](Cardinality(notice.timers) <= 1)
  /\ [][(notice.status # NoMessage /\ notice'.status # notice.status) =>
            \/ sev'.what = "show"
            \/ /\ sev'.what = "timer"
               /\ sev'.by = notice.status
               /\ now >= notice.shownAt + StatusTimeout]_vars
  /\ []((sev.src = "hook" /\ sev.what = "show" /\ sev.empty) => notice.timers = {})
  /\ []((sev.src = "hook" /\ sev.what = "timer" /\ ~sev.mounted) => sev.by > notice.atUnmount)

\* C25 witness: a second message replaced the first before its timer was due, and
\* was cleared by its own timer StatusTimeout later.
C25_Witness ==
  /\ sev.src = "hook"
  /\ sev.what = "timer"
  /\ sev.mounted
  /\ sev.by = 2
  /\ sev.msg = 2
  /\ sev.shownAt > 0
  /\ now = sev.shownAt + StatusTimeout
  /\ notice.status = NoMessage

\* C26: a message the app-level showStatus displayed is cleared by a timer only when
\* StatusTimeout has passed since the call that showed it.
C26_MessageShownForFiveSeconds ==
  (sev.src = "app" /\ sev.what = "timer" /\ sev.msg # NoMessage) =>
     now >= sev.shownAt + StatusTimeout


\* C21: Codec round-trip: whenever the file made by encoding bundle B under password P
\* is decoded, unaltered, with the same password P, decode succeeds and returns
\* exactly B, payload byte for payload byte.
C21_CodecRoundTrip ==
  \A f \in FlowSlots :
    (codec.out[f].done /\ ~codec.out[f].tampered
       /\ codec.out[f].tried = codec.out[f].password)
      => (codec.out[f].ok /\ codec.out[f].err = "none"
            /\ codec.out[f].bundle = codec.bundle)
\* C21 witness: an import has decoded an unaltered two-byte bundle with payload (1, 0)
\* under the password 2 it was exported with, and ended with its success message.
C21_Witness ==
  /\ cev.fin # NoFlow
  /\ cev.sum.kind = "import"
  /\ cev.sum.sched
  /\ codec.bundle = <<1, 0>>
  /\ codec.out[cev.fin].done
  /\ ~codec.out[cev.fin].tampered
  /\ codec.out[cev.fin].tried = 2
  /\ codec.out[cev.fin].password = 2
  /\ codec.out[cev.fin].bundle = <<1, 0>>

\* C22: Authentication is mandatory: whenever the file is decoded with a password
\* other than the one it was encoded with, or after a byte of its ciphertext was
\* altered, decode fails with AuthenticationFailed and returns no bundle; and the
\* import flow that asked for it ends with one error message, no success message
\* (its only other message is the progress message shown before decrypting) and no
\* refresh scheduled.
C22_AuthenticationMandatory ==
  \A f \in FlowSlots :
    (codec.out[f].done
       /\ (codec.out[f].tampered \/ codec.out[f].tried # codec.out[f].password))
      => /\ ~codec.out[f].ok
         /\ codec.out[f].err = "AuthenticationFailed"
         /\ codec.out[f].bundle = NoBundle
         /\ (cev.fin = f /\ cev.sum.kind = "import" /\ cev.sum.pc = "decrypt")
              => (cev.sum.nErr = 1 /\ cev.sum.nInfo = 1 /\ ~cev.sum.sched)
\* C22 witness: an import has ended with its error message after decoding, with the
\* right password 1, a file whose ciphertext had been altered.
C22_Witness ==
  /\ cev.fin # NoFlow
  /\ cev.sum.kind = "import"
  /\ cev.sum.pc = "decrypt"
  /\ cev.sum.nErr = 1
  /\ codec.out[cev.fin].done
  /\ codec.out[cev.fin].tampered
  /\ codec.out[cev.fin].tried = 1
  /\ codec.out[cev.fin].password = 1
  /\ codec.out[cev.fin].err = "AuthenticationFailed"
\* C22 witness of the other case: an import has ended with its error message after
\* decoding an unaltered file with password 2 while it was encoded with password 1.
C22_WitnessWrongPassword ==
  /\ cev.fin # NoFlow
  /\ cev.sum.kind = "import"
  /\ cev.sum.pc = "decrypt"
  /\ cev.sum.nErr = 1
  /\ codec.out[cev.fin].done
  /\ ~codec.out[cev.fin].tampered
  /\ codec.out[cev.fin].tried = 2
  /\ codec.out[cev.fin].password = 1
  /\ codec.out[cev.fin].err = "AuthenticationFailed"

====
